---- MODULE Spec2Model ----
(***************************************************************************)
(* terraform-provider-pgmold: the plan/apply lifecycle of the "schema" and *)
(* "migration" resources, the content fingerprint, the lint gate and the   *)
(* migration-file sequencer, as a state machine over the file system, the  *)
(* database and the per-resource states.                                   *)
(*                                                                         *)
(* Text is a sequence of one-character strings, so that formatting,        *)
(* slicing and the sequencer's regular expression are computed and not     *)
(* assumed.  An Option<T> is a sequence of length 0 (None) or 1 (Some).    *)
(***************************************************************************)
EXTENDS Integers, Sequences, FiniteSets, TLC

VARIABLES
    schemaFs,     \* schema file path -> content tag, or NoFile
    db,           \* the live database: the set of tables it holds
    dbLog,        \* the database interactions of the lifecycle call issued last
    parentExists, \* does the parent of output_dir exist
    outDir,       \* "missing" | "ok" | "unreadable": the output directory
    outFiles,     \* file name -> content, the files of the output directory
    clock,        \* the wall clock, in seconds
    mig,          \* migration resource instance -> its lifecycle record
    sch,          \* the schema resource instance's lifecycle record
    edits,        \* changes made so far from outside: file edits, database drift
    managed,      \* the resource instances the configuration declares
    calls,        \* lifecycle calls the orchestrator has issued so far
    sq,           \* the sequencer harness: [pc, prefix, result]
    provider,     \* the configuration the provider has stored, if configured
    san,          \* the connect-failure harness: [pc, lines, eol, final, error, diags]
    fp,           \* the fingerprint harness: path -> the content hashed and the result
    nsDecl        \* the target_schemas the configuration declares for the resource

vars == <<schemaFs, db, dbLog, parentExists, outDir, outFiles, clock, mig, sch, edits,
          managed, calls, sq, provider, san, fp, nsDecl>>

\* what no lifecycle call of a resource and no user action changes
fixedVars == <<parentExists, managed, sq, provider, san, fp, nsDecl>>

----------------------------------------------------------------------------
(* Option<T> *)

None == <<>>
Some(x) == <<x>>
IsSome(o) == Len(o) = 1
IsNone(o) == Len(o) = 0
Unwrap(o) == o[1]
UnwrapOr(o, d) == IF Len(o) = 1 THEN o[1] ELSE d

----------------------------------------------------------------------------
(* Text *)

DigitChars == <<"0", "1", "2", "3", "4", "5", "6", "7", "8", "9">>

IsDigit(c) == \E k \in 1..10 : DigitChars[k] = c

DigitVal(c) == (CHOOSE k \in 1..10 : DigitChars[k] = c) - 1

\* n.to_string(): the decimal digits of n, most significant first
RECURSIVE ToDigits(_)
ToDigits(n) == IF n < 10 THEN <<DigitChars[n + 1]>>
               ELSE Append(ToDigits(n \div 10), DigitChars[(n % 10) + 1])

RECURSIVE Zeros(_)
Zeros(k) == IF k <= 0 THEN <<>> ELSE <<"0">> \o Zeros(k - 1)

\* {n:0w}: zero-padded to a minimum width, never truncated
PadZero(n, w) == LET d == ToDigits(n) IN Zeros(w - Len(d)) \o d

\* str::parse::<u32>() of a run of ASCII digits
RECURSIVE ParseU32(_)
ParseU32(ds) == IF Len(ds) = 0 THEN 0
                ELSE ParseU32(SubSeq(ds, 1, Len(ds) - 1)) * 10 + DigitVal(ds[Len(ds)])

SqlExt == <<".", "s", "q", "l">>

SetMax(S) == CHOOSE m \in S : \A x \in S : x <= m

----------------------------------------------------------------------------
(* The migration sequencer: find_next_migration_number *)

\* The width of the zero-padded number in a file name ({migration_number:04})
\* and the width of the pattern's numeric group (\d{4}).
PadWidth == 4
GroupWidth == 4

\* The pattern  <escaped prefix>(\d{4})_.*\.sql$  tried at start position s of
\* name.  The pattern carries no ^, so the search tries every start position.
RegexMatchAt(name, pre, s) ==
    LET p == Len(pre)
        u == s + p + GroupWidth        \* where the underscore has to be
    IN  /\ u <= Len(name)
        /\ SubSeq(name, s, s + p - 1) = pre
        /\ \A k \in 0..(GroupWidth - 1) : IsDigit(name[s + p + k])
        /\ name[u] = "_"
        \* .*\.sql$ : the text ends in ".sql", after the underscore
        /\ Len(name) - Len(SqlExt) >= u
        /\ SubSeq(name, Len(name) - Len(SqlExt) + 1, Len(name)) = SqlExt

RegexIsMatch(name, pre) == \E s \in 1..Len(name) : RegexMatchAt(name, pre, s)

\* re.captures(&name).and_then(|c| c.get(1)): group 1 of the leftmost match
RegexGroup1(name, pre) ==
    LET s == CHOOSE s \in 1..Len(name) :
                 /\ RegexMatchAt(name, pre, s)
                 /\ \A r \in 1..(s - 1) : ~RegexMatchAt(name, pre, r)
    IN  SubSeq(name, s + Len(pre), s + Len(pre) + GroupWidth - 1)

\* std::fs::read_dir(output_dir).ok().into_iter().flatten(): the names of the
\* entries, none when the directory is missing or cannot be read
ReadDirNames(dirState, dirFiles) ==
    IF dirState = "ok" THEN DOMAIN dirFiles ELSE {}

\* what the filter_map keeps: the parsed group of every name that matches
CapturedNumbers(names, prefix) ==
    LET pre == UnwrapOr(prefix, <<>>)
    IN  {ParseU32(RegexGroup1(n, pre)) : n \in {m \in names : RegexIsMatch(m, pre)}}

\* a sequencer that hands out the first number not in use
find_first_free_number(names, prefix) ==
    LET nums == CapturedNumbers(names, prefix)
    IN  IF nums = {} THEN 1
        ELSE CHOOSE k \in 1..(SetMax(nums) + 1) :
                 /\ k \notin nums
                 /\ \A j \in 1..(k - 1) : j \in nums

\* a sequencer that hands out the highest number in use
find_max_migration_number(names, prefix) ==
    LET nums == CapturedNumbers(names, prefix)
    IN  IF nums = {} THEN 1 ELSE SetMax(nums)

\* .max().map(|n| n + 1).unwrap_or(1)
find_next_migration_number(names, prefix) ==
    LET nums == CapturedNumbers(names, prefix)
    IN  IF nums = {} THEN 1 ELSE SetMax(nums) + 1

\* chrono::Utc::now().format("%Y%m%d%H%M%S") at clock second t of 2024-01-01 00:00
Timestamp(t) == <<"2", "0", "2", "4", "0", "1", "0", "1", "0", "0", "0", "0">> \o PadZero(t, 2)

\* a file name whose number is not padded
MigrationFileNameUnpadded(prefix, n, t) ==
    UnwrapOr(prefix, <<>>) \o ToDigits(n) \o <<"_">> \o Timestamp(t) \o SqlExt

\* a file name that carries the same time stamp whatever the time of the write
MigrationFileNameFixedStamp(prefix, n, t) ==
    UnwrapOr(prefix, <<>>) \o PadZero(n, PadWidth) \o <<"_">> \o Timestamp(0) \o SqlExt

\* format!("{prefix}{migration_number:04}_{timestamp}.sql")
MigrationFileName(prefix, n, t) ==
    UnwrapOr(prefix, <<>>) \o PadZero(n, PadWidth) \o <<"_">> \o Timestamp(t) \o SqlExt

----------------------------------------------------------------------------
(* Schema files and the content fingerprinter (util.rs) *)

NoFile == "nofile"

\* The schema texts of the model:
\*   cUsers  CREATE TABLE users (id INT);
\*   cBoth   CREATE TABLE users (id INT); CREATE TABLE posts (id INT);
\*   cPosts  CREATE TABLE posts (id INT);
\*   cEmpty  (the empty file)
\*   cBad    CREATE TABLE (            -- not parseable
Contents == {"cUsers", "cBoth", "cPosts", "cEmpty", "cBad"}

SchemaPaths == {"a.sql", "b.sql"}

\* Path::exists
FileExists(fs, path) == fs[path] # NoFile

DigestUsers == <<
       "5", "8", "e", "7", "7", "0", "2", "b", "2", "0", "f", "3", "e", "3", "9", "e",
       "3", "a", "5", "8", "0", "7", "2", "9", "9", "7", "b", "b", "d", "6", "3", "0",
       "7", "b", "9", "6", "a", "7", "e", "d", "9", "1", "0", "6", "8", "a", "c", "2",
       "e", "e", "d", "5", "9", "f", "7", "4", "8", "f", "1", "a", "d", "7", "b", "f" >>

DigestBoth == <<
       "f", "2", "9", "b", "2", "9", "b", "f", "b", "6", "1", "d", "c", "0", "2", "b",
       "3", "8", "a", "3", "4", "6", "4", "c", "a", "0", "a", "3", "7", "3", "f", "c",
       "2", "0", "4", "2", "c", "c", "6", "9", "1", "7", "4", "d", "e", "7", "c", "f",
       "0", "6", "9", "b", "6", "0", "e", "e", "f", "5", "b", "b", "e", "6", "d", "3" >>

DigestPosts == <<
       "9", "a", "c", "e", "8", "c", "1", "6", "7", "3", "4", "b", "4", "3", "c", "5",
       "9", "7", "b", "e", "6", "5", "c", "c", "4", "9", "6", "3", "8", "f", "7", "9",
       "9", "f", "d", "5", "8", "b", "c", "7", "2", "d", "1", "1", "1", "c", "f", "a",
       "c", "1", "5", "6", "4", "8", "7", "e", "e", "3", "a", "7", "d", "d", "6", "1" >>

DigestEmpty == <<
       "e", "3", "b", "0", "c", "4", "4", "2", "9", "8", "f", "c", "1", "c", "1", "4",
       "9", "a", "f", "b", "f", "4", "c", "8", "9", "9", "6", "f", "b", "9", "2", "4",
       "2", "7", "a", "e", "4", "1", "e", "4", "6", "4", "9", "b", "9", "3", "4", "c",
       "a", "4", "9", "5", "9", "9", "1", "b", "7", "8", "5", "2", "b", "8", "5", "5" >>

DigestBad == <<
       "3", "e", "2", "3", "f", "b", "e", "e", "3", "d", "6", "3", "2", "2", "6", "0",
       "6", "d", "f", "7", "4", "e", "4", "5", "3", "9", "9", "e", "e", "6", "c", "2",
       "1", "f", "9", "6", "4", "9", "a", "6", "2", "9", "2", "c", "6", "d", "7", "b",
       "0", "e", "2", "d", "e", "e", "b", "4", "c", "e", "3", "f", "d", "7", "2", "1" >>

DigestPathA == <<
       "0", "a", "8", "0", "8", "f", "d", "e", "4", "7", "c", "a", "3", "0", "e", "3",
       "b", "1", "c", "4", "3", "c", "4", "e", "b", "9", "a", "b", "3", "9", "0", "7",
       "5", "e", "6", "0", "0", "7", "f", "7", "8", "9", "6", "1", "a", "c", "9", "5",
       "e", "8", "8", "6", "9", "e", "c", "8", "6", "f", "0", "2", "0", "1", "a", "6" >>

DigestPathB == <<
       "0", "4", "4", "9", "0", "3", "5", "e", "1", "3", "0", "6", "b", "5", "2", "a",
       "9", "6", "a", "3", "9", "4", "4", "e", "c", "e", "c", "4", "d", "3", "0", "d",
       "e", "8", "4", "d", "8", "d", "2", "b", "7", "6", "1", "7", "e", "6", "1", "1",
       "9", "2", "2", "b", "4", "9", "9", "c", "0", "9", "a", "5", "b", "a", "b", "8" >>

DigestAbsA == <<
       "e", "1", "0", "8", "c", "4", "8", "2", "1", "a", "5", "5", "e", "d", "a", "1",
       "4", "2", "d", "9", "9", "4", "9", "9", "1", "1", "d", "b", "3", "9", "9", "4",
       "3", "6", "3", "2", "b", "8", "b", "4", "e", "2", "1", "6", "0", "c", "c", "3",
       "b", "1", "8", "7", "1", "6", "c", "b", "c", "6", "4", "8", "a", "8", "3", "4" >>

DigestAbsB == <<
       "a", "d", "5", "6", "1", "3", "b", "4", "2", "4", "6", "f", "7", "3", "6", "7",
       "f", "8", "e", "0", "6", "9", "c", "8", "1", "2", "9", "4", "4", "1", "3", "9",
       "6", "5", "a", "c", "d", "9", "0", "b", "9", "2", "f", "a", "8", "4", "c", "4",
       "f", "d", "e", "4", "c", "d", "d", "b", "c", "1", "f", "1", "8", "9", "e", "4" >>

\* format!("{result:x}") of Sha256 over the bytes: the digests of the texts above
Sha256Hex(bytes) ==
    CASE bytes = "cUsers" -> DigestUsers
      [] bytes = "cBoth" -> DigestBoth
      [] bytes = "cPosts" -> DigestPosts
      [] bytes = "cEmpty" -> DigestEmpty
      [] bytes = "cBad" -> DigestBad
      [] bytes = "a.sql" -> DigestPathA
      [] bytes = "b.sql" -> DigestPathB
      [] bytes = "/w/a.sql" -> DigestAbsA
      [] bytes = "/w/b.sql" -> DigestAbsB

Ok(v) == [ok |-> TRUE, val |-> v]
Err(e) == [ok |-> FALSE, err |-> e]

\* a fingerprint taken of the path and not of the content
compute_hash_of_path(fs, path) ==
    IF fs[path] = NoFile THEN Err("No such file or directory (os error 2)")
    ELSE Ok(Sha256Hex(path))

\* compute_schema_hash: read_to_string(path)? then the hex digest
compute_schema_hash(fs, path) ==
    IF fs[path] = NoFile THEN Err("No such file or directory (os error 2)")
    ELSE Ok(Sha256Hex(fs[path]))

\* Path::canonicalize: the absolute path of an existing file, an error otherwise
Canonicalize(fs, path) ==
    IF fs[path] = NoFile THEN Err("No such file or directory (os error 2)")
    ELSE Ok(IF path = "a.sql" THEN "/w/a.sql" ELSE "/w/b.sql")

\* compute_path_hash: canonicalize().unwrap_or_else(|_| path.to_path_buf())
compute_path_hash(fs, path) ==
    LET c == Canonicalize(fs, path)
    IN  Sha256Hex(IF c.ok THEN c.val ELSE path)

\* &hash[..8]
IdPrefixLen == 8
HashPrefix(h) == SubSeq(h, 1, IdPrefixLen)

----------------------------------------------------------------------------
(* Directory entries the sequencer is run against *)

Day(d) == <<"2", "0", "2", "4", "0", "1", "0", d>>

\* the names of the unit tests of find_next_migration_number
F0001 == <<"0", "0", "0", "1", "_">> \o Day("1") \o SqlExt
F0002 == <<"0", "0", "0", "2", "_">> \o Day("2") \o SqlExt
F0003 == <<"0", "0", "0", "3", "_">> \o Day("3") \o SqlExt
F0007 == <<"0", "0", "0", "7", "_">> \o Day("7") \o SqlExt
V0001 == <<"V", "0", "0", "0", "1", "_">> \o Day("1") \o SqlExt
V0005 == <<"V", "0", "0", "0", "5", "_">> \o Day("2") \o SqlExt
ReadmeMd == <<"R", "E", "A", "D", "M", "E", ".", "m", "d">>
SchemaSql == <<"s", "c", "h", "e", "m", "a">> \o SqlExt
\* further entries: a wrong extension, a three-digit number, extra leading
\* characters before the prefix, and numbers at and past the four-digit range
F0004Txt == <<"0", "0", "0", "4", "_", "x", ".", "t", "x", "t">>
F012 == <<"0", "1", "2", "_", "x">> \o SqlExt
XV0009 == <<"X", "V", "0", "0", "0", "9", "_", "x">> \o SqlExt
F9999 == <<"9", "9", "9", "9", "_", "x">> \o SqlExt
F10000 == <<"1", "0", "0", "0", "0", "_", "x">> \o SqlExt

PrefixV == <<"V">>
Prefixes == {None, Some(PrefixV)}

\* the names the engine itself writes for the number 10000
E10000 == MigrationFileName(None, 10000, 0)
VE10000 == MigrationFileName(Some(PrefixV), 10000, 0)

SeqNames == {F0001, F0002, F0003, F0007, V0001, V0005, ReadmeMd, SchemaSql,
             F0004Txt, F012, XV0009, F9999, F10000, E10000, VE10000}

\* the largest directory the sequencer harness starts from
MaxDirSize == 3

BoundedSubsets(S, k) == {T \in SUBSET S : Cardinality(T) <= k}

----------------------------------------------------------------------------
(* The external toolkit (pgmold): connect, introspect, parse, diff, lint,  *)
(* generate_sql.  The provider treats it as a black box; it is modelled    *)
(* by its contract.                                                        *)

Tables == {"users", "posts"}
TableOrder == <<"users", "posts">>

UrlOk == "postgres://ok"
UrlDown == "postgres://down"
Urls == {UrlOk, UrlDown}

\* the text of a failed connect: two lines, the second naming the password
ConnErrText ==
    <<"r", "e", "f", "u", "s", "e", "d", "\n",
      "p", "a", "s", "s", "w", "o", "r", "d", "=", "x">>

\* PgConnection::new(url)
Connect(url) == IF url = UrlOk THEN Ok(url) ELSE Err(ConnErrText)

\* parse_sql_file(path): the tables the text declares
ParseSqlFile(fs, path) ==
    CASE fs[path] = "cUsers" -> Ok({"users"})
      [] fs[path] = "cBoth" -> Ok({"users", "posts"})
      [] fs[path] = "cPosts" -> Ok({"posts"})
      [] fs[path] = "cEmpty" -> Ok({})
      [] OTHER -> Err("parse error")

\* the elements of seq s that satisfy Keep, in order
RECURSIVE SelectOps(_, _, _)
SelectOps(order, kind, S) ==
    IF Len(order) = 0 THEN <<>>
    ELSE (IF order[1] \in S THEN <<[kind |-> kind, table |-> order[1]]>> ELSE <<>>)
         \o SelectOps(Tail(order), kind, S)

\* compute_diff(current, target): creates, then drops, in table order
ComputeDiff(current, target) ==
    SelectOps(TableOrder, "CreateTable", target \ current)
    \o SelectOps(TableOrder, "DropTable", current \ target)

\* lint_migration_plan(ops, options): one finding per destructive operation
\* (an error unless destructive operations are allowed) and a warning for a
\* table created without a primary key
LintOne(op, allow_destructive) ==
    IF op.kind = "DropTable"
    THEN <<[severity |-> IF allow_destructive THEN "Warning" ELSE "Error",
            message |-> <<"destructive: drop table ", op.table>>]>>
    ELSE IF op.table = "posts"
    THEN <<[severity |-> "Warning", message |-> <<"no primary key: ", op.table>>]>>
    ELSE <<>>

RECURSIVE LintMigrationPlan(_, _)
LintMigrationPlan(ops, allow_destructive) ==
    IF Len(ops) = 0 THEN <<>>
    ELSE LintOne(ops[1], allow_destructive) \o LintMigrationPlan(Tail(ops), allow_destructive)

\* pgmold::lint::has_errors
HasErrors(findings) == \E k \in 1..Len(findings) : findings[k].severity = "Error"

\* generate_sql(ops): one statement per operation
GenerateSql(ops) ==
    [k \in 1..Len(ops) |->
        <<IF ops[k].kind = "CreateTable" THEN "CREATE TABLE " ELSE "DROP TABLE ", ops[k].table>>]

\* the database after the statements of ops are executed
Execute(tables, ops) ==
    (tables \cup {ops[k].table : k \in {j \in 1..Len(ops) : ops[j].kind = "CreateTable"}})
    \ {ops[k].table : k \in {j \in 1..Len(ops) : ops[j].kind = "DropTable"}}

\* format!("{op:?}")
OpSummary(op) == <<op.kind, "(", op.table, ")">>

\* sql.join("\n")
RECURSIVE JoinLines(_)
JoinLines(stmts) ==
    IF Len(stmts) = 0 THEN <<>>
    ELSE IF Len(stmts) = 1 THEN stmts[1]
    ELSE stmts[1] \o <<"\n">> \o JoinLines(Tail(stmts))

----------------------------------------------------------------------------
(* util.rs: sanitize_db_error *)

\* a line without the carriage return that preceded its line feed
StripCr(line) ==
    IF Len(line) > 0 /\ line[Len(line)] = "\r" THEN SubSeq(line, 1, Len(line) - 1) ELSE line

\* str::lines(): the text split at "\n" or "\r\n"; a final line ending adds
\* no line, and a carriage return that ends the text stays in its line
RECURSIVE SplitLines(_, _)
SplitLines(text, cur) ==
    IF Len(text) = 0 THEN (IF Len(cur) = 0 THEN <<>> ELSE <<cur>>)
    ELSE IF text[1] = "\n" THEN <<StripCr(cur)>> \o SplitLines(Tail(text), <<>>)
    ELSE SplitLines(Tail(text), Append(cur, text[1]))

\* str::contains(needle)
Contains(line, needle) ==
    \E s \in 1..(Len(line) - Len(needle) + 1) :
        SubSeq(line, s, s + Len(needle) - 1) = needle

PasswordLower == <<"p", "a", "s", "s", "w", "o", "r", "d">>
PasswordUpper == <<"P", "A", "S", "S", "W", "O", "R", "D">>
Redacted == <<"Database connection failed (credentials redacted)">>

\* a sanitizer that knows the lower-case marker only
sanitize_lower_only(error) ==
    LET lines == SplitLines(error, <<>>)
    IN  JoinLines([k \in 1..Len(lines) |->
            IF Contains(lines[k], PasswordLower) THEN Redacted ELSE lines[k]])

sanitize_db_error(error) ==
    LET lines == SplitLines(error, <<>>)
    IN  JoinLines([k \in 1..Len(lines) |->
            IF Contains(lines[k], PasswordLower) \/ Contains(lines[k], PasswordUpper)
            THEN Redacted ELSE lines[k]])

\* the Err arm of the connect in create and update of both resources: the
\* error is formatted, sanitized and reported as one diagnostic
ConnectFailure(e) == <<<<"Failed to connect to database: ">> \o sanitize_db_error(e)>>

----------------------------------------------------------------------------
(* Bounds *)

\* lifecycle calls the orchestrator issues in one run
MaxCalls == 4
\* the last second the wall clock reaches
MaxClock == 1
\* changes from outside the provider: schema-file edits and deletions of the
\* written file by the user, and drift of the live database
MaxEdits == 1

----------------------------------------------------------------------------
(* The orchestrator's side of a resource instance *)

MigIds == {"m1", "m2"}

\* the schema file each migration resource instance declares
MigSchemaFile(i) == IF i = "m1" THEN "a.sql" ELSE "b.sql"

OutputDir == "out"

\* the declared (input) attributes of a migration resource
MigConfigs(i) ==
    {[schema_file |-> MigSchemaFile(i), database_url |-> u, prefix |-> p,
      target_schemas |-> nsDecl] :
        u \in {None, Some(UrlOk), Some(UrlDown)}, p \in Prefixes}

\* MigrationResourceState::default() with the declared attributes set
MigDefaultState(cfg) ==
    [id |-> <<>>,
     schema_file |-> cfg.schema_file,
     database_url |-> cfg.database_url,
     output_dir |-> OutputDir,
     prefix |-> cfg.prefix,
     target_schemas |-> cfg.target_schemas,
     schema_hash |-> None,
     migration_file |-> None,
     migration_number |-> None,
     operations |-> None]

\* The proposed state the orchestrator hands to a plan: the declared attributes
\* from the configuration, the computed ones from the prior state (none on create)
MigProposed(cfg, prior) ==
    IF IsNone(prior) THEN MigDefaultState(cfg)
    ELSE [Unwrap(prior) EXCEPT !.schema_file = cfg.schema_file,
                               !.database_url = cfg.database_url,
                               !.prefix = cfg.prefix,
                               !.target_schemas = cfg.target_schemas]

\* what a lifecycle call was given (the proposed or planned state, if any) and
\* what it returned
NoCall == [op |-> "none", arg |-> None, ok |-> TRUE, diags |-> <<>>]
Returned(op, arg, ok, diags) == [op |-> op, arg |-> arg, ok |-> ok, diags |-> diags]

\* wrote: the names of the files the instance has written since it was created;
\* stale: the names of those whose removal by update failed
IdleMig ==
    [pc |-> "idle", call |-> "none", prior |-> None, planned |-> None,
     last |-> NoCall, ops |-> <<>>, num |-> 0, pfx |-> None, seen |-> {}, file |-> None,
     wrote |-> {}, stale |-> {}]

\* diags.root_error_short(msg)
Diag(msg) == <<msg>>

MigIdle(i) == i \in managed /\ mig[i].pc = "idle" /\ calls < MaxCalls

\* a call of instance i returns: its planned state is used up or replaced
MigReturn(i, op, arg, ok, diags, planned, prior) ==
    /\ mig' = [mig EXCEPT ![i].pc = "idle", ![i].call = "none",
                          ![i].planned = planned, ![i].prior = prior,
                          ![i].last = Returned(op, arg, ok, diags)]
    /\ calls' = calls + 1

\* namespaces: the namespace list the introspection of the call was given
NoDbIo == [connects |-> 0, introspects |-> 0, executes |-> 0, namespaces |-> None]

\* a call that touches neither the database nor the file system
NoIo ==
    /\ dbLog' = NoDbIo
    /\ UNCHANGED <<db, outDir, outFiles>>

EnvUnchanged == UNCHANGED <<schemaFs, clock, edits, fixedVars>>

----------------------------------------------------------------------------
(* migration.rs: MigrationResource *)

\* the path output_dir.join(filename), and the file name of such a path
PathIn(dir, name) == <<dir, "/">> \o name
NameOf(path) == SubSeq(path, 3, Len(path))

MigIdText == "pgmold-migration-"

\* a plan_create that does not ask for the database URL
MigPlanCreateNoUrlCheck(fs, parentOk, proposed) ==
    IF ~FileExists(fs, proposed.schema_file)
    THEN [state |-> None,
          diags |-> Diag(<<"schema_file not found: ", proposed.schema_file>>)]
    ELSE IF ~parentOk
    THEN [state |-> None, diags |-> Diag(<<"output_dir parent does not exist: ">>)]
    ELSE LET h == compute_schema_hash(fs, proposed.schema_file)
         IN  [state |-> Some([proposed EXCEPT
                                 !.id = <<MigIdText>> \o HashPrefix(h.val),
                                 !.schema_hash = Some(h.val)]),
              diags |-> <<>>]

\* a plan_create that derives the id from the path of the schema file, as the
\* schema resource does
MigPlanCreatePathId(fs, parentOk, proposed) ==
    IF IsNone(proposed.database_url)
    THEN [state |-> None, diags |-> Diag(<<"database_url is required">>)]
    ELSE IF ~FileExists(fs, proposed.schema_file)
    THEN [state |-> None,
          diags |-> Diag(<<"schema_file not found: ", proposed.schema_file>>)]
    ELSE IF ~parentOk
    THEN [state |-> None, diags |-> Diag(<<"output_dir parent does not exist: ">>)]
    ELSE LET h == compute_schema_hash(fs, proposed.schema_file)
         IN  IF ~h.ok
             THEN [state |-> None,
                   diags |-> Diag(<<"Failed to read schema file: ", h.err>>)]
             ELSE [state |-> Some([proposed EXCEPT
                                      !.id = <<MigIdText>>
                                             \o HashPrefix(compute_path_hash(fs, proposed.schema_file)),
                                      !.schema_hash = Some(h.val)]),
                   diags |-> <<>>]

\* plan_create: Some(planned state) or None, and the diagnostics added
MigPlanCreateResult(fs, parentOk, proposed) ==
    IF IsNone(proposed.database_url)
    THEN [state |-> None, diags |-> Diag(<<"database_url is required">>)]
    ELSE IF ~FileExists(fs, proposed.schema_file)
    THEN [state |-> None,
          diags |-> Diag(<<"schema_file not found: ", proposed.schema_file>>)]
    ELSE IF ~parentOk
    THEN [state |-> None, diags |-> Diag(<<"output_dir parent does not exist: ">>)]
    ELSE LET h == compute_schema_hash(fs, proposed.schema_file)
         IN  IF ~h.ok
             THEN [state |-> None,
                   diags |-> Diag(<<"Failed to read schema file: ", h.err>>)]
             ELSE [state |-> Some([proposed EXCEPT
                                      !.id = <<MigIdText>> \o HashPrefix(h.val),
                                      !.schema_hash = Some(h.val)]),
                   diags |-> <<>>]

\* plan_update: Some((proposed_state, ..)), whatever the schema file is
MigPlanUpdateResult(fs, parentOk, proposed) ==
    [state |-> Some(proposed), diags |-> <<>>]

\* a plan_create that already creates the output directory
MigPlanCreateMkdir(i) ==
    /\ MigIdle(i)
    /\ IsNone(mig[i].prior)
    /\ \E cfg \in MigConfigs(i) :
         LET proposed == MigProposed(cfg, None)
             r == MigPlanCreateResult(schemaFs, parentExists, proposed)
         IN  MigReturn(i, "plan_create", Some(proposed), IsSome(r.state), r.diags,
                       r.state, mig[i].prior)
    /\ dbLog' = NoDbIo
    /\ outDir' = IF outDir = "missing" THEN "ok" ELSE outDir
    /\ UNCHANGED <<db, outFiles, sch>>
    /\ EnvUnchanged

MigPlanCreate(i) ==
    /\ MigIdle(i)
    /\ IsNone(mig[i].prior)
    /\ \E cfg \in MigConfigs(i) :
         LET proposed == MigProposed(cfg, None)
             r == MigPlanCreateResult(schemaFs, parentExists, proposed)
         IN  MigReturn(i, "plan_create", Some(proposed), IsSome(r.state), r.diags,
                       r.state, mig[i].prior)
    /\ NoIo
    /\ UNCHANGED <<sch>>
    /\ EnvUnchanged

MigPlanUpdate(i) ==
    /\ MigIdle(i)
    /\ IsSome(mig[i].prior)
    /\ \E cfg \in MigConfigs(i) :
         LET proposed == MigProposed(cfg, mig[i].prior)
             r == MigPlanUpdateResult(schemaFs, parentExists, proposed)
         IN  MigReturn(i, "plan_update", Some(proposed), IsSome(r.state), r.diags,
                       r.state, mig[i].prior)
    /\ NoIo
    /\ UNCHANGED <<sch>>
    /\ EnvUnchanged

\* plan_destroy: Some(prior_private_state)
MigPlanDestroy(i) ==
    /\ MigIdle(i)
    /\ IsSome(mig[i].prior)
    /\ MigReturn(i, "plan_destroy", None, TRUE, <<>>, None, mig[i].prior)
    /\ NoIo
    /\ UNCHANGED <<sch>>
    /\ EnvUnchanged

\* a read that forgets a resource whose recorded file or schema file is gone
MigReadChecksFile(i) ==
    /\ MigIdle(i)
    /\ IsSome(mig[i].prior)
    /\ LET st == Unwrap(mig[i].prior)
           gone == \/ ~FileExists(schemaFs, st.schema_file)
                   \/ /\ IsSome(st.migration_file)
                      /\ NameOf(Unwrap(st.migration_file)) \notin DOMAIN outFiles
       IN  MigReturn(i, "read", None, TRUE, <<>>, mig[i].planned,
                     IF gone THEN None ELSE mig[i].prior)
    /\ NoIo
    /\ UNCHANGED <<sch>>
    /\ EnvUnchanged

\* read: Some((state, private_state))
MigRead(i) ==
    /\ MigIdle(i)
    /\ IsSome(mig[i].prior)
    /\ MigReturn(i, "read", None, TRUE, <<>>, mig[i].planned, mig[i].prior)
    /\ NoIo
    /\ UNCHANGED <<sch>>
    /\ EnvUnchanged

\* a destroy that removes the file the state records
MigDestroyRemovesFile(i) ==
    /\ MigIdle(i)
    /\ IsSome(mig[i].prior)
    /\ mig[i].last.op = "plan_destroy"
    /\ mig' = [mig EXCEPT ![i] = [IdleMig EXCEPT !.last = Returned("destroy", None, TRUE, <<>>)]]
    /\ calls' = calls + 1
    /\ dbLog' = NoDbIo
    /\ LET old == Unwrap(mig[i].prior).migration_file
       IN  outFiles' = IF IsSome(old)
                       THEN [n \in (DOMAIN outFiles) \ {NameOf(Unwrap(old))} |-> outFiles[n]]
                       ELSE outFiles
    /\ UNCHANGED <<db, outDir, sch>>
    /\ EnvUnchanged

\* destroy: Some(()); the orchestrator then forgets the resource
MigDestroy(i) ==
    /\ MigIdle(i)
    /\ IsSome(mig[i].prior)
    /\ mig[i].last.op = "plan_destroy"
    /\ mig' = [mig EXCEPT ![i] = [IdleMig EXCEPT !.last = Returned("destroy", None, TRUE, <<>>)]]
    /\ calls' = calls + 1
    /\ NoIo
    /\ UNCHANGED <<sch>>
    /\ EnvUnchanged

\* a report of the first finding of error severity only
RECURSIVE LintFirstErrorDiag(_)
LintFirstErrorDiag(findings) ==
    IF Len(findings) = 0 THEN <<>>
    ELSE IF findings[1].severity = "Error" THEN Diag(findings[1].message)
    ELSE LintFirstErrorDiag(Tail(findings))

\* the error diagnostics of a blocked lint gate: one per finding of error severity
RECURSIVE LintErrorDiags(_)
LintErrorDiags(findings) ==
    IF Len(findings) = 0 THEN <<>>
    ELSE (IF findings[1].severity = "Error" THEN Diag(findings[1].message) ELSE <<>>)
         \o LintErrorDiags(Tail(findings))

\* a gate that any finding blocks, whatever its severity
MigGateAnyFinding(planned, fs, tables, introspectOk) ==
    IF IsNone(planned.database_url)
    THEN [kind |-> "none", diags |-> <<>>, connects |-> 0, introspects |-> 0, ops |-> <<>>]
    ELSE LET c == Connect(Unwrap(planned.database_url))
             t == ParseSqlFile(fs, planned.schema_file)
             ops == ComputeDiff(tables, t.val)
             lint == LintMigrationPlan(ops, FALSE)
         IN  IF ~c.ok
             THEN [kind |-> "fail", connects |-> 1, introspects |-> 0, ops |-> <<>>,
                   diags |-> ConnectFailure(c.err)]
             ELSE IF ~introspectOk
             THEN [kind |-> "fail", connects |-> 1, introspects |-> 1, ops |-> <<>>,
                   diags |-> Diag(<<"Failed to introspect database: ">>)]
             ELSE IF ~t.ok
             THEN [kind |-> "fail", connects |-> 1, introspects |-> 1, ops |-> <<>>,
                   diags |-> Diag(<<"Failed to parse schema file: ", t.err>>)]
             ELSE IF Len(ops) = 0
             THEN [kind |-> "empty", connects |-> 1, introspects |-> 1, ops |-> ops,
                   diags |-> <<>>]
             ELSE IF Len(lint) > 0
             THEN [kind |-> "fail", connects |-> 1, introspects |-> 1, ops |-> ops,
                   diags |-> [k \in 1..Len(lint) |-> lint[k].message]]
             ELSE [kind |-> "go", connects |-> 1, introspects |-> 1, ops |-> ops,
                   diags |-> <<>>]

\* a gate that lets an empty operation set through to the file steps
MigGateNoEmptyReturn(planned, fs, tables, introspectOk) ==
    IF IsNone(planned.database_url)
    THEN [kind |-> "none", diags |-> <<>>, connects |-> 0, introspects |-> 0, ops |-> <<>>]
    ELSE LET c == Connect(Unwrap(planned.database_url))
             t == ParseSqlFile(fs, planned.schema_file)
             ops == ComputeDiff(tables, t.val)
             lint == LintMigrationPlan(ops, FALSE)
         IN  IF ~c.ok
             THEN [kind |-> "fail", connects |-> 1, introspects |-> 0, ops |-> <<>>,
                   diags |-> ConnectFailure(c.err)]
             ELSE IF ~introspectOk
             THEN [kind |-> "fail", connects |-> 1, introspects |-> 1, ops |-> <<>>,
                   diags |-> Diag(<<"Failed to introspect database: ">>)]
             ELSE IF ~t.ok
             THEN [kind |-> "fail", connects |-> 1, introspects |-> 1, ops |-> <<>>,
                   diags |-> Diag(<<"Failed to parse schema file: ", t.err>>)]
             ELSE IF HasErrors(lint)
             THEN [kind |-> "fail", connects |-> 1, introspects |-> 1, ops |-> ops,
                   diags |-> LintErrorDiags(lint)]
             ELSE [kind |-> "go", connects |-> 1, introspects |-> 1, ops |-> ops,
                   diags |-> <<>>]

\* create/update up to the lint gate (lines 227-286, 326-385): connect,
\* introspect, parse, diff, the empty-set return and the lint gate.
\* kind: "none" (no URL), "fail", "empty", "go"
MigGate(planned, fs, tables, introspectOk) ==
    IF IsNone(planned.database_url)
    THEN [kind |-> "none", diags |-> <<>>, connects |-> 0, introspects |-> 0, ops |-> <<>>]
    ELSE LET c == Connect(Unwrap(planned.database_url))
             t == ParseSqlFile(fs, planned.schema_file)
             ops == ComputeDiff(tables, t.val)
             lint == LintMigrationPlan(ops, FALSE)
         IN  IF ~c.ok
             THEN [kind |-> "fail", connects |-> 1, introspects |-> 0, ops |-> <<>>,
                   diags |-> ConnectFailure(c.err)]
             ELSE IF ~introspectOk
             THEN [kind |-> "fail", connects |-> 1, introspects |-> 1, ops |-> <<>>,
                   diags |-> Diag(<<"Failed to introspect database: ">>)]
             ELSE IF ~t.ok
             THEN [kind |-> "fail", connects |-> 1, introspects |-> 1, ops |-> <<>>,
                   diags |-> Diag(<<"Failed to parse schema file: ", t.err>>)]
             ELSE IF Len(ops) = 0
             THEN [kind |-> "empty", connects |-> 1, introspects |-> 1, ops |-> ops,
                   diags |-> <<>>]
             ELSE IF HasErrors(lint)
             THEN [kind |-> "fail", connects |-> 1, introspects |-> 1, ops |-> ops,
                   diags |-> LintErrorDiags(lint)]
             ELSE [kind |-> "go", connects |-> 1, introspects |-> 1, ops |-> ops,
                   diags |-> <<>>]

\* lines 239-242, 338-341: target_schemas.unwrap_or_else(|| vec!["public"])
IntrospectNamespaces(planned) == UnwrapOr(planned.target_schemas, <<"public">>)

\* a first part that creates the output directory before anything else
MigBeginMkdirFirst(i, call, next) ==
    /\ MigIdle(i)
    /\ IsSome(mig[i].planned)
    /\ \E introspectOk \in BOOLEAN :
         LET planned == Unwrap(mig[i].planned)
             g == MigGate(planned, schemaFs, db, introspectOk)
         IN  /\ dbLog' = [connects |-> g.connects, introspects |-> g.introspects,
                           executes |-> 0,
                           namespaces |-> IF g.introspects = 1
                                          THEN Some(IntrospectNamespaces(planned)) ELSE None]
             /\ outDir' = IF outDir = "missing" THEN "ok" ELSE outDir
             /\ CASE g.kind = "go" ->
                       mig' = [mig EXCEPT ![i].pc = next, ![i].call = call,
                                          ![i].ops = g.ops, ![i].num = 0, ![i].pfx = None,
                                          ![i].seen = {}, ![i].file = None]
                  [] g.kind = "empty" ->
                       mig' = [mig EXCEPT ![i].planned = None,
                                          ![i].prior = Some([planned EXCEPT !.operations = Some(<<>>)]),
                                          ![i].last = Returned(call, mig[i].planned, TRUE, <<>>),
                                          ![i].ops = <<>>, ![i].num = 0, ![i].pfx = None,
                                          ![i].seen = {}, ![i].file = None]
                  [] OTHER ->
                       mig' = [mig EXCEPT ![i].planned = None,
                                          ![i].last = Returned(call, mig[i].planned, FALSE, g.diags),
                                          ![i].ops = <<>>, ![i].num = 0, ![i].pfx = None,
                                          ![i].seen = {}, ![i].file = None]
    /\ calls' = calls + 1
    /\ UNCHANGED <<schemaFs, db, outFiles, clock, edits, fixedVars, sch>>

\* a first part that, on update, removes the prior file before it connects
MigBeginRemovesFirst(i, call, next) ==
    /\ MigIdle(i)
    /\ IsSome(mig[i].planned)
    /\ \E introspectOk \in BOOLEAN :
         LET planned == Unwrap(mig[i].planned)
             g == MigGate(planned, schemaFs, db, introspectOk)
             old == IF call = "update" /\ IsSome(Unwrap(mig[i].prior).migration_file)
                    THEN {NameOf(Unwrap(Unwrap(mig[i].prior).migration_file))}
                    ELSE {}
         IN  /\ dbLog' = [connects |-> g.connects, introspects |-> g.introspects,
                           executes |-> 0,
                           namespaces |-> IF g.introspects = 1
                                          THEN Some(IntrospectNamespaces(planned)) ELSE None]
             /\ outFiles' = [n \in (DOMAIN outFiles) \ old |-> outFiles[n]]
             /\ CASE g.kind = "go" ->
                       mig' = [mig EXCEPT ![i].pc = next, ![i].call = call,
                                          ![i].ops = g.ops, ![i].num = 0, ![i].pfx = None,
                                          ![i].seen = {}, ![i].file = None]
                  [] g.kind = "empty" ->
                       mig' = [mig EXCEPT ![i].planned = None,
                                          ![i].prior = Some([planned EXCEPT !.operations = Some(<<>>)]),
                                          ![i].last = Returned(call, mig[i].planned, TRUE, <<>>),
                                          ![i].ops = <<>>, ![i].num = 0, ![i].pfx = None,
                                          ![i].seen = {}, ![i].file = None]
                  [] OTHER ->
                       mig' = [mig EXCEPT ![i].planned = None,
                                          ![i].last = Returned(call, mig[i].planned, FALSE, g.diags),
                                          ![i].ops = <<>>, ![i].num = 0, ![i].pfx = None,
                                          ![i].seen = {}, ![i].file = None]
    /\ calls' = calls + 1
    /\ UNCHANGED <<schemaFs, db, outDir, clock, edits, fixedVars, sch>>

\* the first part of create or update, up to the lint gate
MigBegin(i, call, next) ==
    /\ MigIdle(i)
    /\ IsSome(mig[i].planned)
    /\ \E introspectOk \in BOOLEAN :
         LET planned == Unwrap(mig[i].planned)
             g == MigGate(planned, schemaFs, db, introspectOk)
         IN  /\ dbLog' = [connects |-> g.connects, introspects |-> g.introspects,
                           executes |-> 0,
                           namespaces |-> IF g.introspects = 1
                                          THEN Some(IntrospectNamespaces(planned)) ELSE None]
             /\ CASE g.kind = "go" ->
                       mig' = [mig EXCEPT ![i].pc = next, ![i].call = call,
                                          ![i].ops = g.ops, ![i].num = 0, ![i].pfx = None,
                                          ![i].seen = {}, ![i].file = None]
                  [] g.kind = "empty" ->
                       mig' = [mig EXCEPT ![i].planned = None,
                                          ![i].prior = Some([planned EXCEPT !.operations = Some(<<>>)]),
                                          ![i].last = Returned(call, mig[i].planned, TRUE, <<>>),
                                          ![i].ops = <<>>, ![i].num = 0, ![i].pfx = None,
                                          ![i].seen = {}, ![i].file = None]
                  [] OTHER ->
                       mig' = [mig EXCEPT ![i].planned = None,
                                          ![i].last = Returned(call, mig[i].planned, FALSE, g.diags),
                                          ![i].ops = <<>>, ![i].num = 0, ![i].pfx = None,
                                          ![i].seen = {}, ![i].file = None]
    /\ calls' = calls + 1
    /\ UNCHANGED <<schemaFs, db, outDir, outFiles, clock, edits, fixedVars, sch>>

MigCreateBegin(i) ==
    /\ IsNone(mig[i].prior)
    /\ MigBegin(i, "create", "scan")

MigUpdateBegin(i) ==
    /\ IsSome(mig[i].prior)
    /\ MigBegin(i, "update", "remove")

\* an update that leaves the prior file where it is
MigUpdateKeepOld(i) ==
    /\ mig[i].pc = "remove"
    /\ mig' = [mig EXCEPT ![i].pc = "scan"]
    /\ UNCHANGED <<schemaFs, db, dbLog, outDir, outFiles, clock, edits, calls, fixedVars, sch>>

\* update, lines 387-391: the prior artifact, if it still exists, is removed;
\* a failed removal is ignored
MigUpdateRemoveOld(i) ==
    /\ mig[i].pc = "remove"
    /\ LET old == Unwrap(mig[i].prior).migration_file
       IN  IF IsSome(old) /\ outDir # "missing" /\ NameOf(Unwrap(old)) \in DOMAIN outFiles
           THEN \E removed \in BOOLEAN :
                    IF removed
                    THEN /\ outFiles' = [n \in (DOMAIN outFiles) \ {NameOf(Unwrap(old))} |->
                                             outFiles[n]]
                         /\ mig' = [mig EXCEPT ![i].pc = "scan"]
                    ELSE /\ outFiles' = outFiles
                         /\ mig' = [mig EXCEPT ![i].pc = "scan",
                                               ![i].stale = @ \cup {NameOf(Unwrap(old))}]
           ELSE /\ outFiles' = outFiles
                /\ mig' = [mig EXCEPT ![i].pc = "scan"]
    /\ UNCHANGED <<schemaFs, db, dbLog, outDir, clock, edits, calls, fixedVars, sch>>

\* lines 288-289, 393-394: the sequence number is allocated
MigScan(i) ==
    /\ mig[i].pc = "scan"
    /\ LET names == ReadDirNames(outDir, outFiles)
       IN  mig' = [mig EXCEPT ![i].pc = "mkdir",
                              ![i].seen = names,
                              ![i].pfx = Unwrap(mig[i].planned).prefix,
                              ![i].num = find_next_migration_number(
                                             names, Unwrap(mig[i].planned).prefix)]
    /\ UNCHANGED <<sch, calls, db, dbLog, outDir, outFiles>>
    /\ EnvUnchanged

\* lines 294-297, 399-402: create_dir_all(output_dir)
MigMkdir(i) ==
    /\ mig[i].pc = "mkdir"
    /\ \E created \in BOOLEAN :
         IF outDir # "missing" \/ created
         THEN /\ outDir' = IF outDir = "missing" THEN "ok" ELSE outDir
              /\ mig' = [mig EXCEPT ![i].pc = "write"]
         ELSE /\ outDir' = outDir
              /\ mig' = [mig EXCEPT ![i].pc = "idle", ![i].call = "none",
                                    ![i].planned = None,
                                    ![i].last = Returned(mig[i].call, mig[i].planned, FALSE,
                                        Diag(<<"Failed to create output directory: ">>))]
    /\ UNCHANGED <<schemaFs, db, dbLog, outFiles, clock, edits, calls, fixedVars, sch>>

\* a write step that also runs the generated statements against the database
MigWriteAndExecute(i) ==
    /\ mig[i].pc = "write"
    /\ LET planned == Unwrap(mig[i].planned)
           filename == MigrationFileName(planned.prefix, mig[i].num, clock)
           filepath == PathIn(planned.output_dir, filename)
           sql == GenerateSql(mig[i].ops)
           op_summaries == [k \in 1..Len(mig[i].ops) |-> OpSummary(mig[i].ops[k])]
       IN  /\ outDir # "missing"
           /\ outFiles' = [n \in (DOMAIN outFiles) \cup {filename} |->
                              IF n = filename THEN JoinLines(sql) ELSE outFiles[n]]
           /\ db' = Execute(db, mig[i].ops)
           /\ dbLog' = [dbLog EXCEPT !.executes = 1]
           /\ mig' = [mig EXCEPT ![i].pc = "idle", ![i].call = "none",
                                 ![i].planned = None,
                                 ![i].file = Some(filename),
                                 ![i].wrote = @ \cup {filename},
                                 ![i].prior = Some([planned EXCEPT
                                     !.migration_file = Some(filepath),
                                     !.migration_number = Some(mig[i].num),
                                     !.operations = Some(op_summaries)]),
                                 ![i].last = Returned(mig[i].call, mig[i].planned, TRUE, <<>>)]
    /\ UNCHANGED <<schemaFs, outDir, clock, edits, calls, fixedVars, sch>>

\* a write step that records the path and the operations but not the number
MigWriteKeepsNumber(i) ==
    /\ mig[i].pc = "write"
    /\ LET planned == Unwrap(mig[i].planned)
           filename == MigrationFileName(planned.prefix, mig[i].num, clock)
           filepath == PathIn(planned.output_dir, filename)
           sql == GenerateSql(mig[i].ops)
           op_summaries == [k \in 1..Len(mig[i].ops) |-> OpSummary(mig[i].ops[k])]
       IN  /\ outDir # "missing"
           /\ outFiles' = [n \in (DOMAIN outFiles) \cup {filename} |->
                              IF n = filename THEN JoinLines(sql) ELSE outFiles[n]]
           /\ mig' = [mig EXCEPT ![i].pc = "idle", ![i].call = "none",
                                 ![i].planned = None,
                                 ![i].file = Some(filename),
                                 ![i].wrote = @ \cup {filename},
                                 ![i].prior = Some([planned EXCEPT
                                     !.migration_file = Some(filepath),
                                     !.operations = Some(op_summaries)]),
                                 ![i].last = Returned(mig[i].call, mig[i].planned, TRUE, <<>>)]
    /\ UNCHANGED <<schemaFs, db, dbLog, outDir, clock, edits, calls, fixedVars, sch>>

\* a write step that takes the id and the schema_hash of the returned state
\* from the schema file as it is at the time of the write
MigWriteRehashes(i) ==
    /\ mig[i].pc = "write"
    /\ LET planned == Unwrap(mig[i].planned)
           filename == MigrationFileName(planned.prefix, mig[i].num, clock)
           filepath == PathIn(planned.output_dir, filename)
           sql == GenerateSql(mig[i].ops)
           op_summaries == [k \in 1..Len(mig[i].ops) |-> OpSummary(mig[i].ops[k])]
           h == compute_schema_hash(schemaFs, planned.schema_file)
       IN  /\ outDir # "missing"
           /\ h.ok
           /\ outFiles' = [n \in (DOMAIN outFiles) \cup {filename} |->
                              IF n = filename THEN JoinLines(sql) ELSE outFiles[n]]
           /\ mig' = [mig EXCEPT ![i].pc = "idle", ![i].call = "none",
                                 ![i].planned = None,
                                 ![i].file = Some(filename),
                                 ![i].wrote = @ \cup {filename},
                                 ![i].prior = Some([planned EXCEPT
                                     !.id = <<MigIdText>> \o HashPrefix(h.val),
                                     !.schema_hash = Some(h.val),
                                     !.migration_file = Some(filepath),
                                     !.migration_number = Some(mig[i].num),
                                     !.operations = Some(op_summaries)]),
                                 ![i].last = Returned(mig[i].call, mig[i].planned, TRUE, <<>>)]
    /\ UNCHANGED <<schemaFs, db, dbLog, outDir, clock, edits, calls, fixedVars, sch>>

\* lines 299-314, 404-419: the file is named and written, the state returned
MigWrite(i) ==
    /\ mig[i].pc = "write"
    /\ LET planned == Unwrap(mig[i].planned)
           filename == MigrationFileName(planned.prefix, mig[i].num, clock)
           filepath == PathIn(planned.output_dir, filename)
           sql == GenerateSql(mig[i].ops)
           op_summaries == [k \in 1..Len(mig[i].ops) |-> OpSummary(mig[i].ops[k])]
       IN  \E written \in BOOLEAN, created \in BOOLEAN :
             IF written /\ outDir # "missing"
             THEN /\ created
                  /\ outFiles' = [n \in (DOMAIN outFiles) \cup {filename} |->
                                     IF n = filename THEN JoinLines(sql) ELSE outFiles[n]]
                  /\ mig' = [mig EXCEPT ![i].pc = "idle", ![i].call = "none",
                                        ![i].planned = None,
                                        ![i].file = Some(filename),
                                        ![i].wrote = @ \cup {filename},
                                        ![i].prior = Some([planned EXCEPT
                                            !.migration_file = Some(filepath),
                                            !.migration_number = Some(mig[i].num),
                                            !.operations = Some(op_summaries)]),
                                        ![i].last = Returned(mig[i].call, mig[i].planned, TRUE, <<>>)]
             ELSE \* std::fs::write is File::create, then write_all: the call
                  \* fails in create, and no file appears, or in write_all, and
                  \* the file it created stays, without the statements
                  /\ outFiles' = IF created /\ outDir # "missing"
                                 THEN [n \in (DOMAIN outFiles) \cup {filename} |->
                                          IF n = filename THEN <<>> ELSE outFiles[n]]
                                 ELSE outFiles
                  /\ mig' = [mig EXCEPT ![i].pc = "idle", ![i].call = "none",
                                        ![i].planned = None,
                                        ![i].last = Returned(mig[i].call, mig[i].planned, FALSE,
                                            Diag(<<"Failed to write migration file: ">>))]
    /\ UNCHANGED <<schemaFs, db, dbLog, outDir, clock, edits, calls, fixedVars, sch>>

----------------------------------------------------------------------------
(* schema.rs: SchemaResource *)

\* tf_provider::value::Value<T>: Null | Unknown | Value(x)
VNull == <<"null">>
VUnknown == <<"unknown">>
Val(x) == <<"value", x>>
IsNull(v) == v[1] = "null"
IsValue(v) == v[1] = "value"
\* Value::as_str(): the empty text unless a value
AsStr(v) == IF IsValue(v) THEN v[2] ELSE ""
\* ValueBool::unwrap_or(d)
BoolOr(v, d) == IF IsValue(v) THEN v[2] ELSE d

SchSchemaFile == "a.sql"

SchConfigs ==
    {[schema_file |-> Val(SchSchemaFile), database_url |-> u,
      target_schemas |-> IF IsSome(nsDecl) THEN Val(Unwrap(nsDecl)) ELSE VNull,
      allow_destructive |-> a, zero_downtime |-> VNull] :
        u \in {VNull, Val(UrlOk), Val(UrlDown)}, a \in {VNull, Val(TRUE)}}

\* SchemaResourceState::default() with the declared attributes set
SchDefaultState(cfg) ==
    [id |-> VNull,
     schema_file |-> cfg.schema_file,
     database_url |-> cfg.database_url,
     target_schemas |-> cfg.target_schemas,
     allow_destructive |-> cfg.allow_destructive,
     zero_downtime |-> cfg.zero_downtime,
     schema_hash |-> VNull,
     applied_at |-> VNull,
     migration_count |-> VNull]

SchProposed(cfg, prior) ==
    IF IsNone(prior) THEN SchDefaultState(cfg)
    ELSE [Unwrap(prior) EXCEPT !.schema_file = cfg.schema_file,
                               !.database_url = cfg.database_url,
                               !.target_schemas = cfg.target_schemas,
                               !.allow_destructive = cfg.allow_destructive,
                               !.zero_downtime = cfg.zero_downtime]

IdleSch ==
    [prior |-> None, planned |-> None, last |-> NoCall]

SchIdText == "pgmold-"

\* lines 131-156 and 168-193: the file check, the two hashes, the planned state
SchPlanCore(fs, proposed) ==
    LET schema_file_str == AsStr(proposed.schema_file)
    IN  IF ~FileExists(fs, schema_file_str)
        THEN [state |-> None,
              diags |-> Diag(<<"schema_file not found: ", schema_file_str>>)]
        ELSE LET h == compute_schema_hash(fs, schema_file_str)
                 path_hash == compute_path_hash(fs, schema_file_str)
             IN  IF ~h.ok
                 THEN [state |-> None,
                       diags |-> Diag(<<"Failed to read schema file: ", h.err>>)]
                 ELSE [state |-> Some([proposed EXCEPT
                                          !.id = Val(<<SchIdText>> \o HashPrefix(path_hash)),
                                          !.schema_hash = Val(h.val),
                                          !.applied_at = VUnknown,
                                          !.migration_count = VUnknown]),
                       diags |-> <<>>]

SchPlanCreateResult(fs, proposed) ==
    IF IsNull(proposed.database_url)
    THEN [state |-> None,
          diags |-> Diag(<<"database_url is required (either at resource or provider level)">>)]
    ELSE SchPlanCore(fs, proposed)

\* a plan_update that recomputes the hashes but keeps the outputs it was given
SchPlanUpdateKeepsOutputs(fs, proposed) ==
    LET r == SchPlanCore(fs, proposed)
    IN  IF IsNone(r.state) THEN r
        ELSE [state |-> Some([Unwrap(r.state) EXCEPT
                                 !.applied_at = proposed.applied_at,
                                 !.migration_count = proposed.migration_count]),
              diags |-> r.diags]

SchPlanUpdateResult(fs, proposed) == SchPlanCore(fs, proposed)

SchId == "s1"

SchIdle == SchId \in managed /\ calls < MaxCalls

SchReturn(op, arg, ok, diags, planned, prior) ==
    /\ sch' = [prior |-> prior, planned |-> planned, last |-> Returned(op, arg, ok, diags)]
    /\ calls' = calls + 1

SchPlanCreate ==
    /\ SchIdle
    /\ IsNone(sch.prior)
    /\ \E cfg \in SchConfigs :
         LET proposed == SchProposed(cfg, None)
             r == SchPlanCreateResult(schemaFs, proposed)
         IN  SchReturn("plan_create", Some(proposed), IsSome(r.state), r.diags,
                       r.state, sch.prior)
    /\ NoIo
    /\ UNCHANGED <<mig>>
    /\ EnvUnchanged

SchPlanUpdate ==
    /\ SchIdle
    /\ IsSome(sch.prior)
    /\ \E cfg \in SchConfigs :
         LET proposed == SchProposed(cfg, sch.prior)
             r == SchPlanUpdateResult(schemaFs, proposed)
         IN  SchReturn("plan_update", Some(proposed), IsSome(r.state), r.diags,
                       r.state, sch.prior)
    /\ NoIo
    /\ UNCHANGED <<mig>>
    /\ EnvUnchanged

SchPlanDestroy ==
    /\ SchIdle
    /\ IsSome(sch.prior)
    /\ SchReturn("plan_destroy", None, TRUE, <<>>, None, sch.prior)
    /\ NoIo
    /\ UNCHANGED <<mig>>
    /\ EnvUnchanged

SchRead ==
    /\ SchIdle
    /\ IsSome(sch.prior)
    /\ SchReturn("read", None, TRUE, <<>>, sch.planned, sch.prior)
    /\ NoIo
    /\ UNCHANGED <<mig>>
    /\ EnvUnchanged

SchDestroy ==
    /\ SchIdle
    /\ IsSome(sch.prior)
    /\ sch.last.op = "plan_destroy"
    /\ SchReturn("destroy", None, TRUE, <<>>, None, None)
    /\ NoIo
    /\ UNCHANGED <<mig>>
    /\ EnvUnchanged

\* pgmold::apply::apply_migration(&[schema_file], &connection, options) with
\* dry_run false: parse, introspect, diff, lint; statements are executed only
\* when no finding is an error.  Ok(result) carries the operations, the
\* findings and the database the call leaves; Err is a failed step.
ApplyMigration(fs, path, tables, allow_destructive, introspectOk, executeOk) ==
    LET t == ParseSqlFile(fs, path)
        ops == ComputeDiff(tables, t.val)
        lint == LintMigrationPlan(ops, allow_destructive)
    IN  IF ~t.ok THEN [ok |-> FALSE, err |-> t.err, introspects |-> 0, executes |-> 0, db |-> tables]
        ELSE IF ~introspectOk
        THEN [ok |-> FALSE, err |-> "introspect", introspects |-> 1, executes |-> 0, db |-> tables]
        ELSE IF Len(ops) = 0 \/ HasErrors(lint)
        THEN [ok |-> TRUE, operations |-> ops, lint_results |-> lint,
              introspects |-> 1, executes |-> 0, db |-> tables]
        ELSE IF ~executeOk
        THEN [ok |-> FALSE, err |-> "execute", introspects |-> 1, executes |-> 1, db |-> tables]
        ELSE [ok |-> TRUE, operations |-> ops, lint_results |-> lint,
              introspects |-> 1, executes |-> 1, db |-> Execute(tables, ops)]

\* apply_migration is given the schema file, the connection and the options,
\* and no namespace list: it introspects the namespace it defaults to
ApplyNamespaces == <<"public">>

\* chrono::Utc::now().to_rfc3339()
Rfc3339(t) == <<"2024-01-01T00:00:">> \o PadZero(t, 2) \o <<"+00:00">>

\* a create/update that does not look at the findings apply_migration returns
SchApplyResultNoGate(planned, fs, tables, now, introspectOk, executeOk) ==
    LET db_url == AsStr(planned.database_url)
        c == Connect(db_url)
        schema_file == AsStr(planned.schema_file)
        allow_destructive == BoolOr(planned.allow_destructive, FALSE)
        result == ApplyMigration(fs, schema_file, tables, allow_destructive,
                                 introspectOk, executeOk)
    IN  IF ~c.ok
        THEN [state |-> None, connects |-> 1, introspects |-> 0, executes |-> 0, db |-> tables,
              diags |-> ConnectFailure(c.err)]
        ELSE IF ~result.ok
        THEN [state |-> None, connects |-> 1, introspects |-> result.introspects,
              executes |-> result.executes, db |-> result.db,
              diags |-> Diag(<<"Migration failed: ", result.err>>)]
        ELSE [state |-> Some([planned EXCEPT
                                 !.applied_at = Val(Rfc3339(now)),
                                 !.migration_count = Val(Len(result.operations))]),
              connects |-> 1, introspects |-> result.introspects,
              executes |-> result.executes, db |-> result.db, diags |-> <<>>]

\* create and update (identical bodies): the returned state or None, the
\* diagnostics, and what the call did to the database
SchApplyResult(planned, fs, tables, now, introspectOk, executeOk) ==
    LET db_url == AsStr(planned.database_url)
        c == Connect(db_url)
        schema_file == AsStr(planned.schema_file)
        allow_destructive == BoolOr(planned.allow_destructive, FALSE)
        result == ApplyMigration(fs, schema_file, tables, allow_destructive,
                                 introspectOk, executeOk)
    IN  IF ~c.ok
        THEN [state |-> None, connects |-> 1, introspects |-> 0, executes |-> 0, db |-> tables,
              diags |-> ConnectFailure(c.err)]
        ELSE IF ~result.ok
        THEN [state |-> None, connects |-> 1, introspects |-> result.introspects,
              executes |-> result.executes, db |-> result.db,
              diags |-> Diag(<<"Migration failed: ", result.err>>)]
        ELSE IF HasErrors(result.lint_results)
        THEN [state |-> None, connects |-> 1, introspects |-> result.introspects,
              executes |-> result.executes, db |-> result.db,
              diags |-> LintErrorDiags(result.lint_results)]
        ELSE [state |-> Some([planned EXCEPT
                                 !.applied_at = Val(Rfc3339(now)),
                                 !.migration_count = Val(Len(result.operations))]),
              connects |-> 1, introspects |-> result.introspects,
              executes |-> result.executes, db |-> result.db, diags |-> <<>>]

SchCreateResult(planned, fs, tables, now, introspectOk, executeOk) ==
    SchApplyResult(planned, fs, tables, now, introspectOk, executeOk)

SchUpdateResult(planned, fs, tables, now, introspectOk, executeOk) ==
    SchApplyResult(planned, fs, tables, now, introspectOk, executeOk)

SchApply(op, r) ==
    /\ SchReturn(op, sch.planned, IsSome(r.state), r.diags, None,
                 IF IsSome(r.state) THEN r.state ELSE sch.prior)
    /\ db' = r.db
    /\ dbLog' = [connects |-> r.connects, introspects |-> r.introspects,
                 executes |-> r.executes,
                 namespaces |-> IF r.introspects = 1 THEN Some(ApplyNamespaces) ELSE None]
    /\ UNCHANGED <<schemaFs, outDir, outFiles, clock, edits, fixedVars, mig>>

SchCreate ==
    /\ SchIdle
    /\ IsNone(sch.prior)
    /\ IsSome(sch.planned)
    /\ \E introspectOk \in BOOLEAN, executeOk \in BOOLEAN :
         SchApply("create", SchCreateResult(Unwrap(sch.planned), schemaFs, db, clock,
                                            introspectOk, executeOk))

SchUpdate ==
    /\ SchIdle
    /\ IsSome(sch.prior)
    /\ IsSome(sch.planned)
    /\ \E introspectOk \in BOOLEAN, executeOk \in BOOLEAN :
         SchApply("update", SchUpdateResult(Unwrap(sch.planned), schemaFs, db, clock,
                                            introspectOk, executeOk))

----------------------------------------------------------------------------
(* The environment: the clock and the user's edits of the schema files *)

\* the schema files the managed resources declare
DeclaredFiles ==
    {MigSchemaFile(i) : i \in managed \cap MigIds}
    \cup (IF SchId \in managed THEN {SchSchemaFile} ELSE {})

Tick ==
    /\ clock < MaxClock
    /\ clock' = clock + 1
    /\ UNCHANGED <<schemaFs, db, dbLog, outDir, outFiles, edits, calls, fixedVars, mig, sch>>

EditSchemaFile ==
    /\ edits < MaxEdits
    /\ \E p \in DeclaredFiles, c \in Contents \cup {NoFile} :
         /\ c # schemaFs[p]
         /\ schemaFs' = [schemaFs EXCEPT ![p] = c]
    /\ edits' = edits + 1
    /\ UNCHANGED <<db, dbLog, outDir, outFiles, clock, calls, fixedVars, mig, sch>>

\* the live database drifts: somebody else creates or drops the tables
DbDrift ==
    /\ edits < MaxEdits
    /\ \E t \in {{}, {"users", "posts"}} :
         /\ t # db
         /\ db' = t
    /\ edits' = edits + 1
    /\ UNCHANGED <<schemaFs, dbLog, outDir, outFiles, clock, calls, fixedVars, mig, sch>>

\* the user deletes the migration file the state of a resource records
DeleteArtifact ==
    /\ edits < MaxEdits
    /\ \E i \in managed \cap MigIds :
         /\ IsSome(mig[i].prior)
         /\ IsSome(Unwrap(mig[i].prior).migration_file)
         /\ LET name == NameOf(Unwrap(Unwrap(mig[i].prior).migration_file))
            IN  /\ name \in DOMAIN outFiles
                /\ outFiles' = [n \in (DOMAIN outFiles) \ {name} |-> outFiles[n]]
    /\ edits' = edits + 1
    /\ UNCHANGED <<schemaFs, db, dbLog, outDir, clock, calls, fixedVars, mig, sch>>

----------------------------------------------------------------------------
(* The system *)

\* provider.rs: ProviderConfig, and the provider block that declares nothing
ProviderConfigs ==
    {[database_url |-> u, target_schemas |-> None] : u \in {None, Some(UrlOk)}}

NoDefaults == [database_url |-> None, target_schemas |-> None]

\* PgmoldProvider::configure: the configuration is stored
Configure ==
    /\ provider = None
    /\ \E config \in ProviderConfigs : provider' = Some(config)
    /\ UNCHANGED <<schemaFs, db, dbLog, parentExists, outDir, outFiles, clock, mig, sch, edits,
                   managed, calls, sq, san, fp, nsDecl>>

SeqOff == [pc |-> "off", prefix |-> None, result |-> 0]

FpOff == [p \in SchemaPaths |-> None]

SanOff == [pc |-> "off", lines |-> <<>>, eol |-> <<>>, final |-> FALSE, error |-> <<>>,
           diags |-> <<>>]

Init ==
    /\ schemaFs = [p \in SchemaPaths |-> "cUsers"]
    /\ db \in {{}, {"users", "posts"}}
    /\ dbLog = NoDbIo
    /\ parentExists \in BOOLEAN
    /\ \/ outDir = "missing" /\ outFiles = <<>>
       \/ outDir = "ok" /\ outFiles = [n \in {F0001, F0002} |-> <<>>]
    /\ clock = 0
    /\ mig = [i \in MigIds |-> IdleMig]
    /\ sch = IdleSch
    /\ edits = 0
    /\ managed \in {{SchId}, {"m1"}}
    \* the schema resource has no output directory
    /\ managed = {SchId} => (parentExists /\ outDir = "missing")
    /\ calls = 0
    /\ sq = SeqOff
    /\ provider = Some(NoDefaults)
    /\ san = SanOff
    /\ fp = FpOff
    /\ nsDecl = None

MigNext ==
    \E i \in MigIds :
        \/ MigPlanCreate(i) \/ MigPlanUpdate(i) \/ MigPlanDestroy(i)
        \/ MigRead(i) \/ MigDestroy(i)
        \/ MigCreateBegin(i) \/ MigUpdateBegin(i) \/ MigUpdateRemoveOld(i)
        \/ MigScan(i) \/ MigMkdir(i) \/ MigWrite(i)

SchNext ==
    \/ SchPlanCreate \/ SchPlanUpdate \/ SchPlanDestroy \/ SchRead \/ SchDestroy
    \/ SchCreate \/ SchUpdate

\* One resource, of either kind, through its lifecycle while the user edits the
\* schema file, the database drifts or the written file is deleted.  Resources act on each other only through the database and the
\* file system, whose states Init draws.
Next == MigNext \/ SchNext \/ Tick \/ EditSchemaFile \/ DbDrift \/ DeleteArtifact

Spec == Init /\ [][Next]_vars

\* Two migration resources that share the output directory, their applies
\* interleaved at the file-system calls.
InitPair ==
    /\ schemaFs = [p \in SchemaPaths |-> "cUsers"]
    /\ db = {}
    /\ dbLog = NoDbIo
    /\ parentExists = TRUE
    /\ \/ outDir = "missing" /\ outFiles = <<>>
       \/ outDir = "ok" /\ outFiles = [n \in {F0001, F0002} |-> <<>>]
       \/ outDir = "ok" /\ outFiles = [n \in {F9999} |-> <<>>]
    /\ clock = 0
    /\ mig = [i \in MigIds |-> IdleMig]
    /\ sch = IdleSch
    /\ edits = 0
    /\ managed = MigIds
    /\ calls = 0
    /\ sq = SeqOff
    /\ provider = Some(NoDefaults)
    /\ san = SanOff
    /\ fp = FpOff
    /\ nsDecl = None

NextPair == MigNext \/ Tick

SpecPair == InitPair /\ [][NextPair]_vars

\* The provider is configured, with or without a default database URL, and
\* then one resource of either kind goes through its lifecycle.
InitProv ==
    /\ schemaFs = [p \in SchemaPaths |-> "cUsers"]
    /\ db = {}
    /\ dbLog = NoDbIo
    /\ parentExists = TRUE
    /\ outDir = "missing" /\ outFiles = <<>>
    /\ clock = 0
    /\ mig = [i \in MigIds |-> IdleMig]
    /\ sch = IdleSch
    /\ edits = 0
    /\ managed \in {{SchId}, {"m1"}}
    /\ calls = 0
    /\ sq = SeqOff
    /\ provider = None
    /\ san = SanOff
    /\ fp = FpOff
    /\ nsDecl = None

ResourceNext == IsSome(provider) /\ (MigNext \/ SchNext)

NextProv == Configure \/ ResourceNext

SpecProv == InitProv /\ [][NextProv]_vars

\* what the configuration may declare as target_schemas
NamespaceChoices == {None, Some(<<"app">>), Some(<<"app", "audit">>)}

\* One resource of either kind whose configuration declares target_schemas,
\* or leaves it out, through its lifecycle.
InitNs ==
    /\ schemaFs = [p \in SchemaPaths |-> "cUsers"]
    /\ db = {}
    /\ dbLog = NoDbIo
    /\ parentExists = TRUE
    /\ outDir = "missing" /\ outFiles = <<>>
    /\ clock = 0
    /\ mig = [i \in MigIds |-> IdleMig]
    /\ sch = IdleSch
    /\ edits = 0
    /\ managed \in {{SchId}, {"m1"}}
    /\ calls = 0
    /\ sq = SeqOff
    /\ provider = Some(NoDefaults)
    /\ san = SanOff
    /\ fp = FpOff
    /\ nsDecl \in NamespaceChoices

NextNs == MigNext \/ SchNext

SpecNs == InitNs /\ [][NextNs]_vars

----------------------------------------------------------------------------
(* The sequencer harness: find_next_migration_number applied to a directory *)

InitSeq ==
    /\ schemaFs = <<>>
    /\ db = {}
    /\ dbLog = NoDbIo
    /\ parentExists = TRUE
    /\ outDir \in {"missing", "ok", "unreadable"}
    /\ \E names \in BoundedSubsets(SeqNames, MaxDirSize) :
           /\ outDir = "missing" => names = {}
           /\ outFiles = [n \in names |-> <<>>]
    /\ clock = 0
    /\ mig = [i \in MigIds |-> IdleMig]
    /\ sch = IdleSch
    /\ edits = 0
    /\ managed = {}
    /\ calls = 0
    /\ \E p \in Prefixes : sq = [pc |-> "ready", prefix |-> p, result |-> 0]
    /\ provider = Some(NoDefaults)
    /\ san = SanOff
    /\ fp = FpOff
    /\ nsDecl = None

SeqScan ==
    /\ sq.pc = "ready"
    /\ sq' = [sq EXCEPT !.pc = "scanned",
                        !.result = find_next_migration_number(
                                       ReadDirNames(outDir, outFiles), sq.prefix)]
    /\ UNCHANGED <<schemaFs, db, dbLog, parentExists, outDir, outFiles, clock, mig, sch, edits,
                   managed, calls, provider, san, fp, nsDecl>>

NextSeq == SeqScan

SpecSeq == InitSeq /\ [][NextSeq]_vars

----------------------------------------------------------------------------
(* The connect-failure harness: the error of a failed connect, reported *)

\* the lines of the error texts: plain, with the marker in either spelling at
\* the start or inside, in mixed case, and empty
LineRefused == <<"r", "e", "f", "u", "s", "e", "d">>
LineLower == <<"p", "a", "s", "s", "w", "o", "r", "d", "=", "x">>
LineUpper == <<"a", " ", "P", "A", "S", "S", "W", "O", "R", "D">>
LineMixed == <<"P", "a", "s", "s", "w", "o", "r", "d">>
SanLines == {LineRefused, LineLower, LineUpper, LineMixed, <<>>}

LineEndings == {<<"\n">>, <<"\r", "\n">>}

\* the most lines an error text of the harness has
MaxLines == 3

\* the error text: the lines, each followed by the line ending, the last one
\* only when final
RECURSIVE ErrorText(_, _, _)
ErrorText(lines, eol, final) ==
    IF Len(lines) = 0 THEN <<>>
    ELSE IF Len(lines) = 1 THEN lines[1] \o (IF final THEN eol ELSE <<>>)
    ELSE lines[1] \o eol \o ErrorText(Tail(lines), eol, final)

InitSan ==
    /\ schemaFs = <<>>
    /\ db = {}
    /\ dbLog = NoDbIo
    /\ parentExists = TRUE
    /\ outDir = "missing" /\ outFiles = <<>>
    /\ clock = 0
    /\ mig = [i \in MigIds |-> IdleMig]
    /\ sch = IdleSch
    /\ edits = 0
    /\ managed = {}
    /\ calls = 0
    /\ sq = SeqOff
    /\ provider = Some(NoDefaults)
    /\ fp = FpOff
    /\ nsDecl = None
    /\ \E n \in 0..MaxLines, eol \in LineEndings, final \in BOOLEAN :
         \E lines \in [1..n -> SanLines] :
           \* an empty last line exists only through its line ending
           /\ (~final /\ n > 0) => Len(lines[n]) > 0
           /\ (n = 0) => (~final /\ eol = <<"\n">>)
           /\ san = [pc |-> "ready", lines |-> lines, eol |-> eol, final |-> final,
                     error |-> ErrorText(lines, eol, final), diags |-> <<>>]

\* a create or update of either resource whose connect fails with san.error
SanConnectFail ==
    /\ san.pc = "ready"
    /\ san' = [san EXCEPT !.pc = "done", !.diags = ConnectFailure(san.error)]
    /\ UNCHANGED <<schemaFs, db, dbLog, parentExists, outDir, outFiles, clock, mig, sch, edits,
                   managed, calls, sq, provider, fp, nsDecl>>

NextSan == SanConnectFail

SpecSan == InitSan /\ [][NextSan]_vars

\* the line holds the password marker, in lower or in upper case
Marked(line) ==
    \E s \in 1..Len(line) :
        /\ s + 7 <= Len(line)
        /\ \/ \A k \in 1..8 : line[s + k - 1] = PasswordLower[k]
           \/ \A k \in 1..8 : line[s + k - 1] = PasswordUpper[k]

\* lines, with a line feed between every two
RECURSIVE LinesText(_)
LinesText(lines) ==
    IF Len(lines) = 0 THEN <<>>
    ELSE IF Len(lines) = 1 THEN lines[1]
    ELSE lines[1] \o <<"\n">> \o LinesText(Tail(lines))

\* C21: the diagnostic of a failed connect is the heading followed by the
\* lines of the error, in order, every line that holds the password marker
\* replaced by the redacted message and every other line as it was; no marker
\* is left anywhere in the diagnostic.
C21_ConnectErrorSanitized ==
    san.pc = "done"
    => LET reported == [k \in 1..Len(san.lines) |->
                           IF Marked(san.lines[k])
                           THEN <<"Database connection failed (credentials redacted)">>
                           ELSE san.lines[k]]
       IN  /\ Len(san.diags) = 1
           /\ san.diags[1][1] = "Failed to connect to database: "
           /\ Tail(san.diags[1]) = LinesText(reported)
           /\ ~Marked(Tail(san.diags[1]))

\* an error of three lines, the second with the marker in upper case, was
\* reported with the second line redacted
C21_Witness ==
    /\ san.pc = "done"
    /\ san.lines = <<LineRefused, LineUpper, LineMixed>>
    /\ san.eol = <<"\r", "\n">>
    /\ Tail(san.diags[1])
       = LineRefused \o <<"\n", "Database connection failed (credentials redacted)", "\n">>
         \o LineMixed

----------------------------------------------------------------------------
(* The fingerprint harness: compute_schema_hash applied to the schema files *)

InitHash ==
    /\ schemaFs \in [SchemaPaths -> Contents \cup {NoFile}]
    /\ db = {}
    /\ dbLog = NoDbIo
    /\ parentExists = TRUE
    /\ outDir = "missing" /\ outFiles = <<>>
    /\ clock = 0
    /\ mig = [i \in MigIds |-> IdleMig]
    /\ sch = IdleSch
    /\ edits = 0
    /\ managed = {}
    /\ calls = 0
    /\ sq = SeqOff
    /\ provider = Some(NoDefaults)
    /\ san = SanOff
    /\ fp = FpOff
    /\ nsDecl = None

\* compute_schema_hash(path) is called
HashFile(p) ==
    /\ fp[p] = None
    /\ fp' = [fp EXCEPT ![p] = Some([content |-> schemaFs[p],
                                       result |-> compute_schema_hash(schemaFs, p)])]
    /\ UNCHANGED <<schemaFs, db, dbLog, parentExists, outDir, outFiles, clock, mig, sch, edits,
                   managed, calls, sq, provider, san, nsDecl>>

\* the user rewrites, creates or deletes a schema file
RewriteFile(p) ==
    /\ edits < MaxEdits
    /\ \E c \in Contents \cup {NoFile} :
         /\ c # schemaFs[p]
         /\ schemaFs' = [schemaFs EXCEPT ![p] = c]
    /\ edits' = edits + 1
    /\ UNCHANGED <<db, dbLog, parentExists, outDir, outFiles, clock, mig, sch,
                   managed, calls, sq, provider, san, fp, nsDecl>>

NextHash == \E p \in SchemaPaths : HashFile(p) \/ RewriteFile(p)

SpecHash == InitHash /\ [][NextHash]_vars

HexChars == {"0", "1", "2", "3", "4", "5", "6", "7", "8", "9", "a", "b", "c", "d", "e", "f"}

----------------------------------------------------------------------------
(* Properties of the sequencer *)

\* A name of the form the engine itself writes for prefix pre, read at fixed
\* positions: pre, four digits, "_", any text, ".sql".
EngineForm(name, pre) ==
    LET p == Len(pre)
    IN  /\ Len(name) >= p + 5 + Len(SqlExt)
        /\ \A k \in 1..p : name[k] = pre[k]
        /\ \A k \in 1..4 : IsDigit(name[p + k])
        /\ name[p + 5] = "_"
        /\ \A k \in 1..Len(SqlExt) : name[Len(name) - Len(SqlExt) + k] = SqlExt[k]

\* the number such a name carries
NumberOf(name, pre) ==
    LET p == Len(pre)
    IN  1000 * DigitVal(name[p + 1]) + 100 * DigitVal(name[p + 2])
        + 10 * DigitVal(name[p + 3]) + DigitVal(name[p + 4])

\* the entries a scan of the output directory lists
Listed == IF outDir = "ok" THEN DOMAIN outFiles ELSE {}

\* the numbers of the listed names that have the engine's form for the prefix
ListedNumbers(pre) == {NumberOf(n, pre) : n \in {m \in Listed : EngineForm(m, pre)}}

\* entries that carry no four-digit group at all
Unnumbered == {ReadmeMd, SchemaSql, F0004Txt, F012}

SeqPrefix == UnwrapOr(sq.prefix, <<>>)

\* C3: over a directory whose entries are migration files of the requested
\* prefix and entries without a number, find_next_migration_number returns 1
\* when the directory is empty, missing, unreadable or holds no migration file,
\* and otherwise the highest number in use plus one; a gap below the highest
\* number is never handed out.
C3_NextIsMaxPlusOne ==
    (/\ sq.pc = "scanned"
     /\ \A n \in DOMAIN outFiles : EngineForm(n, SeqPrefix) \/ n \in Unnumbered)
    => LET N == ListedNumbers(SeqPrefix)
       IN  /\ sq.result = (IF N = {} THEN 1 ELSE SetMax(N) + 1)
           /\ \A k \in N : sq.result > k

\* the files 0001, 0003 and 0007 were scanned and 8 came back
C3_GapWitness ==
    /\ sq.pc = "scanned"
    /\ outDir = "ok"
    /\ DOMAIN outFiles = {F0001, F0003, F0007}
    /\ sq.prefix = None
    /\ sq.result = 8

\* C4: entries that are not migration files of exactly the requested prefix
\* never change the result: the result is the one the migration files of the
\* requested prefix alone give.
C4_ForeignEntriesIgnored ==
    sq.pc = "scanned"
    => LET N == ListedNumbers(SeqPrefix)
       IN  sq.result = (IF N = {} THEN 1 ELSE SetMax(N) + 1)

\* A name of the form  pre, four or more digits, "_", any text, ".sql"
WideForm(name, pre) ==
    LET p == Len(pre)
    IN  /\ Len(name) >= p + 5 + Len(SqlExt)
        /\ \A k \in 1..p : name[k] = pre[k]
        /\ \E u \in (p + 5)..(Len(name) - Len(SqlExt)) :
               /\ name[u] = "_"
               /\ \A k \in (p + 1)..(u - 1) : IsDigit(name[k])
        /\ \A k \in 1..Len(SqlExt) : name[Len(name) - Len(SqlExt) + k] = SqlExt[k]

\* the value of the decimal digits ds
RECURSIVE Decimal(_)
Decimal(ds) ==
    IF Len(ds) = 0 THEN 0
    ELSE 10 * Decimal(SubSeq(ds, 1, Len(ds) - 1)) + DigitVal(ds[Len(ds)])

\* the number such a name carries: its digits up to the first underscore
WideNumberOf(name, pre) ==
    LET p == Len(pre)
        u == CHOOSE u \in (p + 1)..Len(name) :
                 name[u] = "_" /\ \A k \in (p + 1)..(u - 1) : name[k] # "_"
    IN  Decimal(SubSeq(name, p + 1, u - 1))

\* C24: over a directory whose entries are files of the form the engine
\* names them for the requested prefix, with numbers of four or more digits,
\* and entries without a number, find_next_migration_number returns the
\* highest number in use plus one, also when that number is 10000 or more.
C24_RoundTripsWithNaming ==
    (/\ sq.pc = "scanned"
     /\ outDir = "ok"
     /\ \A n \in DOMAIN outFiles : WideForm(n, SeqPrefix) \/ n \in Unnumbered)
    => LET N == {WideNumberOf(n, SeqPrefix) :
                    n \in {m \in DOMAIN outFiles : WideForm(m, SeqPrefix)}}
       IN  N # {} => sq.result = SetMax(N) + 1

----------------------------------------------------------------------------
(* Properties of concurrent and successive allocations *)

\* instance i has allocated a number in its latest non-empty apply
Allocated(i) == mig[i].num # 0

\* C1 as stated: two applies against the same directory and prefix never
\* hold the same migration number, however their scans and writes interleave.
C1_NumbersDistinct ==
    \A i \in MigIds, j \in MigIds :
        (i # j /\ Allocated(i) /\ Allocated(j) /\ mig[i].pfx = mig[j].pfx)
        => mig[i].num # mig[j].num

\* C1, amended: an apply whose directory scan lists the file another apply
\* wrote for the same prefix gets a strictly greater number than that apply
\* (for the numbers the four-digit file name holds, up to 9999).
C1_LaterScanGetsGreater ==
    \A i \in MigIds, j \in MigIds :
        (/\ i # j
         /\ Allocated(i) /\ Allocated(j)
         /\ mig[i].pfx = mig[j].pfx
         /\ IsSome(mig[i].file)
         /\ Unwrap(mig[i].file) \in mig[j].seen
         /\ mig[i].num <= 9999)
        => mig[j].num > mig[i].num

\* m2 scanned after m1 had written 0001 and took 2
C1_Witness ==
    /\ Allocated("m1") /\ Allocated("m2")
    /\ mig["m1"].pfx = mig["m2"].pfx
    /\ IsSome(mig["m1"].file)
    /\ Unwrap(mig["m1"].file) \in mig["m2"].seen
    /\ mig["m1"].num = 1
    /\ mig["m2"].num = 2

\* C2: a successful non-empty update that keeps the prefix records a
\* migration number strictly greater than the one the resource held before.
C2_NumbersIncrease ==
    [][\A i \in MigIds :
          (/\ mig[i].pc = "write"
           /\ mig'[i].pc = "idle"
           /\ mig'[i].last.ok
           /\ IsSome(mig[i].prior)
           /\ IsSome(Unwrap(mig[i].prior).migration_number)
           /\ Unwrap(mig[i].prior).prefix = Unwrap(mig'[i].prior).prefix)
          => Unwrap(Unwrap(mig'[i].prior).migration_number)
             > Unwrap(Unwrap(mig[i].prior).migration_number)]_vars

----------------------------------------------------------------------------
(* Properties of the lifecycle calls of one resource *)

PlanOps == {"plan_create", "plan_update", "plan_destroy"}
ApplyOps == {"create", "update"}

\* this step is the plan call op of migration resource i, returning
MigPlanned(i, op) ==
    /\ managed = {i}
    /\ calls' = calls + 1
    /\ mig'[i].pc = "idle"
    /\ mig'[i].last.op = op

\* this step is the plan call op of the schema resource, returning
SchPlanned(op) ==
    /\ managed = {SchId}
    /\ calls' = calls + 1
    /\ sch'.last.op = op

\* this step is a create or update of the schema resource, from call to return
SchApplied == \E op \in ApplyOps : SchPlanned(op)

\* this step is a create or update of migration resource i up to its lint gate
MigApplyBegan(i) ==
    /\ managed = {i}
    /\ calls' = calls + 1
    /\ mig'[i].pc # "idle" \/ mig'[i].last.op \in ApplyOps

\* the operations and findings of an apply of the schema resource
SchTarget == ParseSqlFile(schemaFs, AsStr(Unwrap(sch.planned).schema_file))
SchOps == ComputeDiff(db, SchTarget.val)
SchFindings ==
    LintMigrationPlan(SchOps, BoolOr(Unwrap(sch.planned).allow_destructive, FALSE))

\* the operations and findings of an apply of migration resource i
MigTarget(i) == ParseSqlFile(schemaFs, Unwrap(mig[i].planned).schema_file)
MigOps(i) == ComputeDiff(db, MigTarget(i).val)
MigFindings(i) == LintMigrationPlan(MigOps(i), FALSE)

\* every diagnostic is the message of a finding of error severity
LintDiags(diags, findings) ==
    /\ Len(diags) >= 1
    /\ \A k \in 1..Len(diags) :
          \E f \in 1..Len(findings) :
              findings[f].severity = "Error" /\ diags[k] = findings[f].message

\* the call failed before it reached the lint gate
PreGateFailure(diags) ==
    /\ Len(diags) = 1
    /\ \/ diags[1][1] \in {"Failed to connect to database: ",
                           "Failed to introspect database: ",
                           "Failed to parse schema file: "}
       \/ diags[1] = <<"Migration failed: ", "introspect">>

C7_PlanningTouchesNothing ==
    [][(\/ \E i \in MigIds, op \in PlanOps : MigPlanned(i, op)
        \/ \E op \in PlanOps : SchPlanned(op))
       => /\ dbLog' = NoDbIo
          /\ UNCHANGED <<db, outDir, outFiles, schemaFs>>]_vars

\* a migration plan-create succeeded and the output directory is still missing
C7_Witness ==
    /\ mig["m1"].last.op = "plan_create"
    /\ mig["m1"].last.ok
    /\ outDir = "missing"
    /\ dbLog = NoDbIo

\* C8: the schema_hash of the planned state of a successful plan-create or
\* plan-update, of either kind, is the fingerprint of the schema file's
\* content at the plan.
C8_PlannedHashIsFingerprint ==
    [][/\ \A i \in MigIds, op \in {"plan_create", "plan_update"} :
            (MigPlanned(i, op) /\ mig'[i].last.ok)
            => /\ FileExists(schemaFs, MigSchemaFile(i))
               /\ Unwrap(mig'[i].planned).schema_hash
                  = Some(Sha256Hex(schemaFs[MigSchemaFile(i)]))
       /\ \A op \in {"plan_create", "plan_update"} :
            (SchPlanned(op) /\ sch'.last.ok)
            => /\ FileExists(schemaFs, SchSchemaFile)
               /\ Unwrap(sch'.planned).schema_hash
                  = Val(Sha256Hex(schemaFs[SchSchemaFile]))]_vars

\* C9: a plan-update of either kind fails with an error diagnostic when the
\* declared schema file does not exist.
C9_PlanUpdateNeedsFile ==
    [][/\ \A i \in MigIds :
            (MigPlanned(i, "plan_update") /\ ~FileExists(schemaFs, MigSchemaFile(i)))
            => (~mig'[i].last.ok /\ Len(mig'[i].last.diags) >= 1)
       /\ (SchPlanned("plan_update") /\ ~FileExists(schemaFs, SchSchemaFile))
          => (~sch'.last.ok /\ Len(sch'.last.diags) >= 1)]_vars

\* C10: a plan-create of either kind given no database URL, or a schema file
\* that does not exist, fails with one error diagnostic and no planned state.
C10_PlanCreateNeedsInputs ==
    [][/\ \A i \in MigIds :
            (/\ MigPlanned(i, "plan_create")
             /\ \/ IsNone(Unwrap(mig'[i].last.arg).database_url)
                \/ ~FileExists(schemaFs, MigSchemaFile(i)))
            => /\ ~mig'[i].last.ok
               /\ mig'[i].planned = None
               /\ Len(mig'[i].last.diags) = 1
       /\ (/\ SchPlanned("plan_create")
           /\ \/ IsNull(Unwrap(sch'.last.arg).database_url)
              \/ ~FileExists(schemaFs, SchSchemaFile))
          => /\ ~sch'.last.ok
             /\ sch'.planned = None
             /\ Len(sch'.last.diags) = 1]_vars

\* a migration plan-create without a database URL came back with the error
C10_Witness ==
    /\ mig["m1"].last.op = "plan_create"
    /\ IsNone(Unwrap(mig["m1"].last.arg).database_url)
    /\ ~mig["m1"].last.ok
    /\ mig["m1"].last.diags = <<<<"database_url is required">>>>
    /\ mig["m1"].planned = None


----------------------------------------------------------------------------
(* Properties of what an apply records and leaves behind *)

\* C11: an apply that reaches the diff with an empty operation set succeeds
\* and does nothing more.  The schema resource records operation count 0 and
\* executes nothing; the migration resource records an empty operation list,
\* allocates no number and leaves the output directory and its files as they
\* were.
C11_EmptySetIsSuccessOnly ==
    [][/\ (/\ SchApplied
           /\ Unwrap(sch.planned).database_url = Val(UrlOk)
           /\ SchTarget.ok
           /\ Len(SchOps) = 0
           /\ ~PreGateFailure(sch'.last.diags))
          => /\ sch'.last.ok
             /\ Unwrap(sch'.prior).migration_count = Val(0)
             /\ dbLog'.executes = 0
             /\ db' = db
       /\ \A i \in MigIds :
            (/\ MigApplyBegan(i)
             /\ Unwrap(mig[i].planned).database_url = Some(UrlOk)
             /\ MigTarget(i).ok
             /\ Len(MigOps(i)) = 0
             /\ ~(mig'[i].pc = "idle" /\ PreGateFailure(mig'[i].last.diags)))
            => /\ mig'[i].pc = "idle"
               /\ mig'[i].last.ok
               /\ Unwrap(mig'[i].prior).operations = Some(<<>>)
               /\ Unwrap(mig'[i].prior).migration_number
                  = Unwrap(mig[i].planned).migration_number
               /\ mig'[i].num = 0
               /\ dbLog'.executes = 0
               /\ UNCHANGED <<db, outDir, outFiles>>]_vars

\* an update of a migration resource met an empty operation set: the earlier
\* file is still there and still the recorded one
C11_Witness ==
    /\ mig["m1"].last.op = "update"
    /\ mig["m1"].last.ok
    /\ mig["m1"].num = 0
    /\ Unwrap(mig["m1"].prior).operations = Some(<<>>)
    /\ IsSome(Unwrap(mig["m1"].prior).migration_file)
    /\ NameOf(Unwrap(Unwrap(mig["m1"].prior).migration_file)) \in DOMAIN outFiles


\* the files on disk that migration resource i wrote
OwnFilesOnDisk(i) == mig[i].wrote \cap DOMAIN outFiles

\* the file the state of migration resource i records, if any
RecordedFile(i) ==
    IF IsSome(mig[i].prior) /\ IsSome(Unwrap(mig[i].prior).migration_file)
    THEN {NameOf(Unwrap(Unwrap(mig[i].prior).migration_file))}
    ELSE {}

\* C12: as long as no removal of a prior file has failed, at most one file
\* that a migration resource wrote is on disk, and it is the file its state
\* records as migration_file.
C12_AtMostOneArtifact ==
    \A i \in managed \cap MigIds :
        mig[i].stale = {}
        => /\ Cardinality(OwnFilesOnDisk(i)) <= 1
           /\ OwnFilesOnDisk(i) \subseteq RecordedFile(i)

\* an update has replaced the file the create wrote: two files written, one left
C12_Witness ==
    /\ managed = {"m1"}
    /\ mig["m1"].last.op = "update"
    /\ mig["m1"].last.ok
    /\ mig["m1"].stale = {}
    /\ Cardinality(mig["m1"].wrote) = 2
    /\ OwnFilesOnDisk("m1") = RecordedFile("m1")
    /\ Cardinality(OwnFilesOnDisk("m1")) = 1


\* this step belongs to a lifecycle call of a migration resource
MigStep == managed \subseteq MigIds /\ (mig' # mig \/ calls' # calls)

\* C13: no lifecycle call of the migration resource executes a statement or
\* changes the database; its database interactions are at most one connect
\* and one introspection.
C13_MigrationNeverMutatesDb ==
    [][MigStep
       => /\ db' = db
          /\ dbLog'.executes = 0
          /\ dbLog'.connects <= 1
          /\ dbLog'.introspects <= 1]_vars

\* a migration create wrote its file; the table it creates is not in the database
C13_Witness ==
    /\ mig["m1"].last.op = "create"
    /\ mig["m1"].last.ok
    /\ IsSome(mig["m1"].file)
    /\ mig["m1"].ops = <<[kind |-> "CreateTable", table |-> "users"]>>
    /\ db = {}
    /\ dbLog = [connects |-> 1, introspects |-> 1, executes |-> 0,
                namespaces |-> Some(<<"public">>)]

\* this step is the destroy call of migration resource i
MigDestroyed(i) == MigPlanned(i, "destroy")

\* C20: destroy of either kind succeeds, opens no connection, and changes
\* neither the database nor any file or directory, whatever the prior state.
C20_DestroyIsNoOp ==
    [][((\E i \in MigIds : MigDestroyed(i)) \/ SchPlanned("destroy"))
       => /\ \A i \in MigIds : MigDestroyed(i) => mig'[i].last.ok
          /\ SchPlanned("destroy") => sch'.last.ok
          /\ dbLog' = NoDbIo
          /\ UNCHANGED <<db, outDir, outFiles, schemaFs>>]_vars

\* a migration resource was destroyed and the file it wrote is still on disk
C20_Witness ==
    /\ managed = {"m1"}
    /\ mig["m1"].last.op = "destroy"
    /\ mig["m1"].last.ok
    /\ mig["m1"].prior = None
    /\ \E n \in DOMAIN outFiles : n \notin {F0001, F0002}


\* this step is the write of a create (update) of migration resource i that
\* succeeds
MigWrote(i, call) ==
    /\ mig[i].pc = "write"
    /\ mig[i].call = call
    /\ mig'[i].pc = "idle"
    /\ mig'[i].last.ok

\* the text between the underscore and the extension of an engine-form name
StampOf(name, pre) == SubSeq(name, Len(pre) + 6, Len(name) - Len(SqlExt))

\* the statements of an operation list, one per line
RECURSIVE SqlText(_)
SqlText(ops) ==
    IF Len(ops) = 0 THEN <<>>
    ELSE <<IF ops[1].kind = "CreateTable" THEN "CREATE TABLE " ELSE "DROP TABLE ",
           ops[1].table>>
         \o (IF Len(ops) = 1 THEN <<>> ELSE <<"\n">> \o SqlText(Tail(ops)))

\* C14: a successful non-empty create of a migration resource adds exactly
\* one file to the output directory and changes no other: its name is the
\* prefix, the four-digit zero-padded migration_number, "_", the UTC time
\* stamp and ".sql", its content the generated statements joined by newlines.
\* In an empty or missing directory the number is 1; beside 0001 and 0002 with
\* no prefix it is 3.
C14_CreateWritesOneFile ==
    [][\A i \in MigIds :
          MigWrote(i, "create")
          => LET pre == UnwrapOr(Unwrap(mig[i].planned).prefix, <<>>)
                 added == (DOMAIN outFiles') \ (DOMAIN outFiles)
                 n == Unwrap(Unwrap(mig'[i].prior).migration_number)
             IN  /\ Cardinality(added) = 1
                 /\ DOMAIN outFiles \subseteq DOMAIN outFiles'
                 /\ \A old \in DOMAIN outFiles : outFiles'[old] = outFiles[old]
                 /\ \A f \in added :
                       /\ EngineForm(f, pre)
                       /\ NumberOf(f, pre) = n
                       /\ Len(f) = Len(pre) + 4 + 1 + 14 + Len(SqlExt)
                       /\ StampOf(f, pre) = Timestamp(clock)
                       /\ outFiles'[f] = SqlText(mig[i].ops)
                       /\ Len(outFiles'[f]) > 0
                 /\ DOMAIN outFiles = {} => n = 1
                 /\ (DOMAIN outFiles = {F0001, F0002} /\ pre = <<>>) => n = 3]_vars

\* beside 0001 and 0002 a create has written 0003
C14_Witness ==
    /\ mig["m1"].last.op = "create"
    /\ mig["m1"].last.ok
    /\ Unwrap(mig["m1"].prior).migration_number = Some(3)
    /\ \E f \in DOMAIN outFiles :
          /\ SubSeq(f, 1, 5) = <<"0", "0", "0", "3", "_">>
          /\ DOMAIN outFiles = {F0001, F0002, f}

\* C15: the state a successful non-empty apply of a migration resource
\* returns agrees with the disk: migration_file is the path of a file that
\* exists, the file's name carries migration_number zero-padded, the number
\* is the one the sequencer returned in this call, and operations holds one
\* summary per operation, in order.
C15_StateMatchesDisk ==
    [][\A i \in MigIds, call \in ApplyOps :
          MigWrote(i, call)
          => LET st == Unwrap(mig'[i].prior)
                 pre == UnwrapOr(st.prefix, <<>>)
             IN  /\ IsSome(st.migration_file)
                 /\ IsSome(st.migration_number)
                 /\ IsSome(st.operations)
                 /\ Unwrap(st.migration_file)[1] = st.output_dir
                 /\ NameOf(Unwrap(st.migration_file)) \in DOMAIN outFiles'
                 /\ EngineForm(NameOf(Unwrap(st.migration_file)), pre)
                 /\ NumberOf(NameOf(Unwrap(st.migration_file)), pre)
                    = Unwrap(st.migration_number)
                 /\ Unwrap(st.migration_number) = mig[i].num
                 /\ Len(Unwrap(st.operations)) = Len(mig[i].ops)
                 /\ Len(mig[i].ops) > 0
                 /\ \A k \in 1..Len(mig[i].ops) :
                       Unwrap(st.operations)[k]
                       = <<mig[i].ops[k].kind, "(", mig[i].ops[k].table, ")">>]_vars

\* an update returned a state with a new number for two operations
C15_Witness ==
    /\ mig["m1"].last.op = "update"
    /\ mig["m1"].last.ok
    /\ mig["m1"].num > 0
    /\ Unwrap(mig["m1"].prior).migration_number = Some(mig["m1"].num)
    /\ Len(Unwrap(Unwrap(mig["m1"].prior).operations)) = 2
    /\ RecordedFile("m1") \subseteq DOMAIN outFiles


\* C16: the planned state of every successful plan-create and plan-update of
\* the schema resource has applied_at and migration_count unknown, whatever
\* the proposed state carried; the state of every successful create or update
\* has both known: the time of the apply and the number of operations.
C16_OutputsUnknownThenKnown ==
    [][/\ \A op \in {"plan_create", "plan_update"} :
            (SchPlanned(op) /\ sch'.last.ok)
            => /\ Unwrap(sch'.planned).applied_at = VUnknown
               /\ Unwrap(sch'.planned).migration_count = VUnknown
       /\ (SchApplied /\ sch'.last.ok)
          => LET st == Unwrap(sch'.prior)
             IN  /\ IsValue(st.applied_at)
                 /\ st.applied_at[2] = <<"2024-01-01T00:00:">>
                                        \o (IF clock < 10 THEN <<"0">> ELSE <<>>)
                                        \o ToDigits(clock) \o <<"+00:00">>
                 /\ IsValue(st.migration_count)
                 /\ st.migration_count[2] = Len(SchOps)]_vars

\* a plan-update was handed the outputs of the earlier apply and returned
\* them as unknown
C16_Witness ==
    /\ sch.last.op = "plan_update"
    /\ sch.last.ok
    /\ IsValue(Unwrap(sch.last.arg).applied_at)
    /\ IsValue(Unwrap(sch.last.arg).migration_count)
    /\ Unwrap(sch.planned).applied_at = VUnknown
    /\ Unwrap(sch.planned).migration_count = VUnknown


----------------------------------------------------------------------------
(* Properties of the planned state *)

\* C17: the planned state of every successful plan-create and plan-update of
\* a migration resource carries no migration_file, no migration_number and no
\* operations, also when the prior state holds an artifact.
C17_OutputsAbsentBeforeApply ==
    [][\A i \in MigIds, op \in {"plan_create", "plan_update"} :
          (MigPlanned(i, op) /\ mig'[i].last.ok)
          => LET st == Unwrap(mig'[i].planned)
             IN  /\ st.migration_file = None
                 /\ st.migration_number = None
                 /\ st.operations = None]_vars

\* C18: the id a successful plan returns depends on the declared input only:
\* for the schema resource it is the tag and the first eight digits of the
\* digest of the resolved schema file path, whatever the content; for the
\* migration resource the tag and the first eight digits of the digest of the
\* schema content, whatever the path.
C18_IdFromDeclaredInput ==
    [][/\ \A i \in MigIds, op \in {"plan_create", "plan_update"} :
            (MigPlanned(i, op) /\ mig'[i].last.ok /\ FileExists(schemaFs, MigSchemaFile(i)))
            => Unwrap(mig'[i].planned).id
               = <<"pgmold-migration-">>
                 \o SubSeq(Sha256Hex(schemaFs[MigSchemaFile(i)]), 1, 8)
       /\ \A op \in {"plan_create", "plan_update"} :
            (SchPlanned(op) /\ sch'.last.ok)
            => Unwrap(sch'.planned).id
               = Val(<<"pgmold-">> \o SubSeq(DigestAbsA, 1, 8))]_vars


\* C19: once configure has stored a default database URL, the plan-create of
\* a resource that declares no database_url of its own succeeds.
C19_ProviderUrlInherited ==
    [][/\ \A i \in MigIds :
            (/\ MigPlanned(i, "plan_create")
             /\ IsNone(Unwrap(mig'[i].last.arg).database_url)
             /\ IsSome(provider) /\ IsSome(Unwrap(provider).database_url)
             /\ FileExists(schemaFs, MigSchemaFile(i)) /\ parentExists)
            => mig'[i].last.ok
       /\ (/\ SchPlanned("plan_create")
           /\ IsNull(Unwrap(sch'.last.arg).database_url)
           /\ IsSome(provider) /\ IsSome(Unwrap(provider).database_url)
           /\ FileExists(schemaFs, SchSchemaFile))
          => sch'.last.ok]_vars

----------------------------------------------------------------------------
(* Properties of failed calls *)

FallibleOps == {"plan_create", "plan_update", "create", "update"}

\* this step is the return of a lifecycle call of migration resource i
MigReturned(i) ==
    /\ managed = {i}
    /\ mig'[i].pc = "idle"
    /\ calls' = calls + 1 \/ mig[i].pc # "idle"

\* C22: every plan-create, plan-update, create and update, of either kind,
\* that returns failure has added at least one error diagnostic.
C22_NoSilentFailure ==
    [][/\ \A i \in MigIds :
            (MigReturned(i) /\ mig'[i].last.op \in FallibleOps /\ ~mig'[i].last.ok)
            => Len(mig'[i].last.diags) >= 1
       /\ \A op \in FallibleOps :
            (SchPlanned(op) /\ ~sch'.last.ok) => Len(sch'.last.diags) >= 1]_vars


\* the diagnostics are the one of a failed connect, introspection or parse
FailedBeforeDiff(diags) ==
    /\ Len(diags) = 1
    /\ diags[1][1] \in {"Failed to connect to database: ",
                         "Failed to introspect database: ",
                         "Failed to parse schema file: "}

\* C23: a create or update of a migration resource whose connect,
\* introspection or parse fails returns failure with that one error and
\* changes nothing: no number is allocated, the output directory and its
\* files are as before (the prior artifact included), the database and the
\* recorded state are untouched.
C23_EarlyFailureMutatesNothing ==
    [][\A i \in MigIds :
          (/\ MigApplyBegan(i)
           /\ IsSome(Unwrap(mig[i].planned).database_url)
           /\ \/ Unwrap(mig[i].planned).database_url = Some(UrlDown)
              \/ ~MigTarget(i).ok
              \/ dbLog'.connects = 1 /\ dbLog'.introspects = 1
                 /\ mig'[i].pc = "idle" /\ ~mig'[i].last.ok
                 /\ FailedBeforeDiff(mig'[i].last.diags))
          => /\ mig'[i].pc = "idle"
             /\ mig'[i].last.op \in ApplyOps
             /\ ~mig'[i].last.ok
             /\ FailedBeforeDiff(mig'[i].last.diags)
             /\ mig'[i].num = 0
             /\ mig'[i].prior = mig[i].prior
             /\ mig'[i].wrote = mig[i].wrote
             /\ UNCHANGED <<db, outDir, outFiles, schemaFs>>]_vars

\* an update could not parse the edited schema file; the file of the earlier
\* create is still on disk and still the recorded one
C23_Witness ==
    /\ mig["m1"].last.op = "update"
    /\ ~mig["m1"].last.ok
    /\ mig["m1"].last.diags = <<<<"Failed to parse schema file: ", "parse error">>>>
    /\ RecordedFile("m1") # {}
    /\ RecordedFile("m1") \subseteq DOMAIN outFiles


\* C26: a create or update of a migration resource that the lint gate blocks
\* has no side effect: no number is allocated, no operation is kept for SQL
\* generation, the output directory and its files are as before (on update
\* the prior artifact included), nothing is executed and the recorded state
\* does not change.
C26_BlockedApplyHasNoEffect ==
    [][\A i \in MigIds :
          (/\ MigApplyBegan(i)
           /\ Unwrap(mig[i].planned).database_url = Some(UrlOk)
           /\ MigTarget(i).ok
           /\ Len(MigOps(i)) > 0
           /\ HasErrors(MigFindings(i))
           /\ ~(mig'[i].pc = "idle" /\ PreGateFailure(mig'[i].last.diags)))
          => /\ mig'[i].pc = "idle"
             /\ ~mig'[i].last.ok
             /\ mig'[i].num = 0
             /\ mig'[i].ops = <<>>
             /\ mig'[i].prior = mig[i].prior
             /\ mig'[i].wrote = mig[i].wrote
             /\ mig'[i].stale = mig[i].stale
             /\ dbLog'.executes = 0
             /\ UNCHANGED <<db, outDir, outFiles, schemaFs>>]_vars

\* the database drifted after the create; the update was blocked for the
\* table it would drop, and the file of the create is still on disk
C26_Witness ==
    /\ mig["m1"].last.op = "update"
    /\ ~mig["m1"].last.ok
    /\ mig["m1"].last.diags = <<<<"destructive: drop table ", "posts">>>>
    /\ RecordedFile("m1") # {}
    /\ RecordedFile("m1") \subseteq DOMAIN outFiles
    /\ mig["m1"].wrote = RecordedFile("m1")


\* the messages of the findings of error severity, in the order of the findings
ErrorMessages(findings) ==
    LET IsError(f) == f.severity = "Error"
        errors == SelectSeq(findings, IsError)
    IN  [k \in 1..Len(errors) |-> errors[k].message]

\* C27: an apply of either kind that the lint gate blocks reports one error
\* diagnostic per finding of error severity, in the order of the findings,
\* and none for a finding of lower severity.
C27_EveryErrorFindingReported ==
    [][/\ (/\ SchApplied
           /\ Unwrap(sch.planned).database_url = Val(UrlOk)
           /\ SchTarget.ok
           /\ HasErrors(SchFindings)
           /\ ~PreGateFailure(sch'.last.diags))
          => /\ ~sch'.last.ok
             /\ sch'.last.diags = ErrorMessages(SchFindings)
             /\ Len(sch'.last.diags)
                = Cardinality({k \in 1..Len(SchFindings) : SchFindings[k].severity = "Error"})
       /\ \A i \in MigIds :
            (/\ MigApplyBegan(i)
             /\ Unwrap(mig[i].planned).database_url = Some(UrlOk)
             /\ MigTarget(i).ok
             /\ HasErrors(MigFindings(i))
             /\ ~(mig'[i].pc = "idle" /\ PreGateFailure(mig'[i].last.diags)))
            => /\ mig'[i].pc = "idle"
               /\ ~mig'[i].last.ok
               /\ mig'[i].last.diags = ErrorMessages(MigFindings(i))
               /\ Len(mig'[i].last.diags)
                  = Cardinality({k \in 1..Len(MigFindings(i)) :
                                    MigFindings(i)[k].severity = "Error"})]_vars

\* the schema file now declares posts only and the database holds users: the
\* update was blocked for the drop alone; the warning for the table without a
\* primary key was not reported
C27_Witness ==
    /\ sch.last.op = "update"
    /\ ~sch.last.ok
    /\ schemaFs[SchSchemaFile] = "cPosts"
    /\ db = {"users"}
    /\ Len(LintMigrationPlan(ComputeDiff(db, {"posts"}), FALSE)) = 2
    /\ sch.last.diags = <<<<"destructive: drop table ", "users">>>>


----------------------------------------------------------------------------
(* Properties of the introspection *)

\* C28: the introspection of a create or update, of either kind, is given the
\* target_schemas of the resource when the configuration declares them, and
\* the single namespace "public" when it does not.
C28_IntrospectsConfiguredNamespaces ==
    [][/\ (SchApplied /\ dbLog'.introspects = 1)
          => dbLog'.namespaces
             = Some(IF IsSome(nsDecl) THEN Unwrap(nsDecl) ELSE <<"public">>)
       /\ \A i \in MigIds :
            (MigApplyBegan(i) /\ dbLog'.introspects = 1)
            => dbLog'.namespaces
               = Some(IF IsSome(nsDecl) THEN Unwrap(nsDecl) ELSE <<"public">>)]_vars


----------------------------------------------------------------------------
(* Properties of a failed file write *)

\* C29: a create or update of a migration resource whose file write fails
\* returns failure with the one error diagnostic of the write, leaves the
\* output directory in place, leaves no file of the new name, and returns no
\* new state.
C29_FailedWriteLeavesNoFile ==
    [][\A i \in MigIds :
          (mig[i].pc = "write" /\ mig'[i].pc = "idle" /\ ~mig'[i].last.ok)
          => /\ mig'[i].last.op \in ApplyOps
             /\ mig'[i].last.diags = <<<<"Failed to write migration file: ">>>>
             /\ outDir' = "ok"
             /\ mig'[i].prior = mig[i].prior
             /\ MigrationFileName(Unwrap(mig[i].planned).prefix, mig[i].num, clock)
                \notin DOMAIN outFiles']_vars


----------------------------------------------------------------------------
(* Properties of read and plan-destroy *)

\* C30: read and plan-destroy, of either kind, always succeed without a
\* diagnostic, hand back the state they were given, and touch neither the
\* database nor any file or directory, also when the schema file or the
\* recorded migration file is gone.
C30_ReadAndPlanDestroyPassThrough ==
    [][/\ \A i \in MigIds, op \in {"read", "plan_destroy"} :
            MigPlanned(i, op)
            => /\ mig'[i].last.ok
               /\ mig'[i].last.diags = <<>>
               /\ mig'[i].prior = mig[i].prior
               /\ IsSome(mig'[i].prior)
               /\ dbLog' = NoDbIo
               /\ UNCHANGED <<db, outDir, outFiles, schemaFs>>
       /\ \A op \in {"read", "plan_destroy"} :
            SchPlanned(op)
            => /\ sch'.last.ok
               /\ sch'.last.diags = <<>>
               /\ sch'.prior = sch.prior
               /\ IsSome(sch'.prior)
               /\ dbLog' = NoDbIo
               /\ UNCHANGED <<db, outDir, outFiles, schemaFs>>]_vars

\* the file the state records was deleted; read returned the state as it was
C30_Witness ==
    /\ managed = {"m1"}
    /\ mig["m1"].last.op = "read"
    /\ mig["m1"].last.ok
    /\ RecordedFile("m1") # {}
    /\ RecordedFile("m1") \cap DOMAIN outFiles = {}


----------------------------------------------------------------------------
(* Concurrent applies against one output directory *)

\* the fourteen characters before the extension of a written file's name
TrailingStamp(name) ==
    SubSeq(name, Len(name) - Len(SqlExt) - 13, Len(name) - Len(SqlExt))

\* the latest call of instance i was an apply that succeeded with a non-empty
\* operation set
AppliedNonEmpty(i) ==
    /\ mig[i].pc = "idle"
    /\ mig[i].last.op \in ApplyOps
    /\ mig[i].last.ok
    /\ IsSome(mig[i].prior)
    /\ IsSome(Unwrap(mig[i].prior).migration_file)
    /\ IsSome(Unwrap(mig[i].prior).operations)
    /\ Len(Unwrap(Unwrap(mig[i].prior).operations)) > 0

\* C31 as stated: under every interleaving of two applies against the same
\* output directory and prefix, the migration_file paths two successful
\* non-empty applies returned are different.
C31_PathsDistinct ==
    \A i \in MigIds, j \in MigIds :
        (/\ i # j
         /\ AppliedNonEmpty(i) /\ AppliedNonEmpty(j)
         /\ Unwrap(mig[i].prior).prefix = Unwrap(mig[j].prior).prefix)
        => Unwrap(mig[i].prior).migration_file # Unwrap(mig[j].prior).migration_file

\* C31, amended: the write of an apply that allocated another number, or that
\* happens at another second, than the apply that wrote the file another
\* instance records for the same prefix, leaves that file and its content
\* as they are, and on success returns a path different from the recorded one.
C31_OtherNameLeavesArtifact ==
    [][\A i \in MigIds, j \in MigIds :
          (/\ i # j
           /\ mig[i].pc = "write"
           /\ mig'[i].pc = "idle"
           /\ IsSome(mig[j].prior)
           /\ IsSome(Unwrap(mig[j].prior).migration_file)
           /\ IsSome(Unwrap(mig[j].prior).migration_number)
           /\ Unwrap(mig[j].prior).prefix = Unwrap(mig[i].planned).prefix
           /\ RecordedFile(j) \subseteq DOMAIN outFiles
           /\ \/ mig[i].num # Unwrap(Unwrap(mig[j].prior).migration_number)
              \/ \A g \in RecordedFile(j) : Timestamp(clock) # TrailingStamp(g))
          => /\ \A g \in RecordedFile(j) :
                   /\ g \in DOMAIN outFiles'
                   /\ outFiles'[g] = outFiles[g]
             /\ mig'[i].last.ok
                => Unwrap(mig'[i].prior).migration_file
                   # Unwrap(mig[j].prior).migration_file]_vars

\* both applies allocated 1 before either wrote; the writes fell into
\* different seconds and both files are on disk, each with its statements
C31_Witness ==
    /\ AppliedNonEmpty("m1") /\ AppliedNonEmpty("m2")
    /\ Unwrap(mig["m1"].prior).prefix = Unwrap(mig["m2"].prior).prefix
    /\ Unwrap(mig["m1"].prior).migration_number = Some(1)
    /\ Unwrap(mig["m2"].prior).migration_number = Some(1)
    /\ RecordedFile("m1") # RecordedFile("m2")
    /\ (RecordedFile("m1") \cup RecordedFile("m2")) \subseteq DOMAIN outFiles
    /\ \A g \in RecordedFile("m1") : outFiles[g] = SqlText(mig["m1"].ops)
    /\ \A g \in RecordedFile("m2") : outFiles[g] = SqlText(mig["m2"].ops)
    /\ \A g \in RecordedFile("m1"), h \in RecordedFile("m2") :
          TrailingStamp(g) # TrailingStamp(h)


----------------------------------------------------------------------------
(* A failed update and the prior artifact *)

\* C32: after an update of a migration resource that failed, the file the
\* retained prior state records as migration_file is still on disk (nobody
\* but the provider has touched the directory: the file was there when the
\* update was called).
C32_FailedUpdateKeepsArtifact ==
    \A i \in managed \cap MigIds :
        (/\ mig[i].pc = "idle"
         /\ mig[i].last.op = "update"
         /\ ~mig[i].last.ok
         /\ edits = 0)
        => RecordedFile(i) \subseteq DOMAIN outFiles


----------------------------------------------------------------------------
(* The connection target of a planned state *)

\* C33: every planned state a plan-create or plan-update returned, of either
\* resource kind, has a database_url that is not null: no create or update is
\* handed a planned state without one.
C33_PlannedStateHasUrl ==
    /\ \A i \in MigIds :
          IsSome(mig[i].planned) => IsSome(Unwrap(mig[i].planned).database_url)
    /\ IsSome(sch.planned) => ~IsNull(Unwrap(sch.planned).database_url)


----------------------------------------------------------------------------
(* What an apply changes in the state *)

\* C34: the state a successful create or update returns equals the planned
\* state it was given in every attribute but the computed outputs: applied_at
\* and migration_count for the schema resource; migration_file,
\* migration_number and operations for the migration resource.  The inputs,
\* the id and the schema_hash are the planned ones.
C34_ApplyChangesOutputsOnly ==
    [][/\ (SchApplied /\ sch'.last.ok)
          => LET planned == Unwrap(sch'.last.arg)
                 st == Unwrap(sch'.prior)
             IN  [st EXCEPT !.applied_at = planned.applied_at,
                            !.migration_count = planned.migration_count] = planned
       /\ \A i \in MigIds :
            (MigReturned(i) /\ mig'[i].last.op \in ApplyOps /\ mig'[i].last.ok)
            => LET planned == Unwrap(mig'[i].last.arg)
                   st == Unwrap(mig'[i].prior)
               IN  [st EXCEPT !.migration_file = planned.migration_file,
                              !.migration_number = planned.migration_number,
                              !.operations = planned.operations] = planned]_vars

\* a create was planned on one content of the schema file and applied after
\* the file had changed: the returned state has the planned id and
\* schema_hash, not those of the file as it is, and records a file
C34_Witness ==
    /\ managed = {"m1"}
    /\ mig["m1"].pc = "idle"
    /\ mig["m1"].last.op = "create"
    /\ mig["m1"].last.ok
    /\ edits = 1
    /\ LET planned == Unwrap(mig["m1"].last.arg)
           st == Unwrap(mig["m1"].prior)
           h == compute_schema_hash(schemaFs, st.schema_file)
       IN  /\ st # planned
           /\ IsSome(st.migration_file) /\ IsNone(planned.migration_file)
           /\ st.id = planned.id
           /\ st.schema_hash = planned.schema_hash
           /\ h.ok /\ st.schema_hash # Some(h.val)


----------------------------------------------------------------------------
(* The identity of a migration resource *)

\* the id that goes with the schema_hash of a migration resource state
IdOfHash(st) == <<MigIdText>> \o HashPrefix(Unwrap(st.schema_hash))

\* C35: in every planned state and every applied state of a migration
\* resource, the id is "pgmold-migration-" followed by the first 8 hex
\* characters of the schema_hash of the same state, also when the schema file
\* has changed since.
C35_IdIsHashPrefix ==
    \A i \in MigIds :
        \A st \in {mig[i].planned, mig[i].prior} :
            IsSome(st)
            => /\ IsSome(Unwrap(st).schema_hash)
               /\ Unwrap(st).id = IdOfHash(Unwrap(st))
               /\ Len(Unwrap(st).id) = 1 + IdPrefixLen
               /\ \A k \in 2..Len(Unwrap(st).id) : Unwrap(st).id[k] \in HexChars

\* the schema file changed after the create; the update that followed
\* returned a state whose id goes with its schema_hash, which is not the
\* fingerprint of the file as it is
C35_Witness ==
    /\ managed = {"m1"}
    /\ mig["m1"].pc = "idle"
    /\ mig["m1"].last.op = "update"
    /\ mig["m1"].last.ok
    /\ edits = 1
    /\ LET st == Unwrap(mig["m1"].prior)
           h == compute_schema_hash(schemaFs, st.schema_file)
       IN  /\ st.id = IdOfHash(st)
           /\ IsSome(st.migration_file)
           /\ h.ok
           /\ st.schema_hash # Some(h.val)

====
